---- MODULE Spec2Model ----
(***************************************************************************)
(* Junkpile: the EventManager dispatch queue and the EngineComponent       *)
(* parent/child tree with the engine's object registry.                    *)
(*                                                                         *)
(* SpecEM   - EventManager: addEvent, addListenerFor, handleEvents.        *)
(* SpecPass - EventManager: the dispatch passes over a queue the host has  *)
(*            filled, run to completion.                                   *)
(* SpecComp - EngineObject / EngineComponent: construction,                *)
(*            addChildComponent, removeComponent, destroy, Engine.remove.  *)
(* SpecButton - Button and Time: processButtonDown, processButtonUp,       *)
(*            update, reset, downDuration, Time.update.                    *)
(* SpecEngine - Engine: constructor, setup, start, gameLoop, object        *)
(*            construction.                                                *)
(* SpecAbstract - construction of the engine, of objects, and of the      *)
(*            abstract classes directly.                                   *)
(* SpecInput - a set-up engine: the host's key callbacks, the keyboard as  *)
(*            an EventManager listener, gameLoop.                          *)
(* SpecKeyboard - KeyBoard and Mouse: string recording, the Button tables. *)
(* SpecTree - game objects constructed and re-parented, and lookups along  *)
(*            the parent chain.                                            *)
(* SpecUsers - the engine's user table: users added, removed, looked up.   *)
(* SpecTransform - game objects constructed, re-parented and moved by game *)
(*            code, and the frames that update their Transforms.          *)
(***************************************************************************)
EXTENDS Integers, Sequences, FiniteSets, TLC

(***************************************************************************)
(* Bounds.                                                                 *)
(***************************************************************************)
\* events published over one run (host signals and handler publications)
MaxEvents == 3
\* addListenerFor calls over one run
MaxListeners == 2
\* handleEvents calls (frames) over one run
MaxPasses == 2
\* components constructed by the game code
MaxComp == 3
\* addChildComponent / removeComponent / destroy calls made after the set-up code
MaxOps == 2
\* nested destroy() calls the JavaScript stack holds before a RangeError is thrown; a
\* destroy() that returns stays far below it with the few components of this model, so
\* only a recursion that never ends reaches the limit
StackLimit == 10
\* milliseconds of engine time that pass over one run
MaxElapsed == 300
\* `new Engine` attempts over one run
MaxCtor == 3
\* gameLoop invocations that run a frame over one run
MaxFrames == 2
\* KeyBoard and Mouse calls over one run
MaxKeyOps == 4
\* constructions, writes and re-parentings by game code, and frames, over one run of
\* the game objects
MaxSteps == 6
\* game objects constructed over one run of the game objects
MaxObjects == 2
\* the largest user ID the server hands out
MaxUserID == 2

\* Button.BTN_DELAY, Button.BTN_RECENT
BTN_DELAY == 100
BTN_RECENT == 18
\* KeyBoard.INPUTSTRING_LEN, KeyCode.BACKSPACE, KeyCode.ENTER
INPUTSTRING_LEN == 250
BACKSPACE == 8
ENTER == 13
\* Date.now() when the Time object is constructed, in milliseconds
T0 == 1000
\* milliseconds between two readings of Date.now() by Time.update
FrameMs == 50
\* the same when the host delays a frame (a busy page, a tab in the background)
SlowMs == 150

\* event type strings: KeyEvent.KEYEVENT_TYPE, ClickEvent.CLICKEVENT_TYPE
Types == {"KeyEvent", "ClickEvent"}
\* the handler object and function handed to the n-th addListenerFor call: every
\* registration brings its own object (KeyBoard, Mouse, then game objects)
HandlerObj(n) == IF n = 1 THEN "keyboard" ELSE IF n = 2 THEN "mouse" ELSE <<"object", n>>
HandlerFunc(n) == IF n = 1 THEN "processKeyEvent" ELSE IF n = 2 THEN "processMouseButton"
                  ELSE <<"handler", n>>

\* the value of a JavaScript variable that holds no object
None == 0
\* the GUID an object receives while Engine#guidCounter is still undefined
NaN == -1
\* null, where the code tells it from undefined: the parent argument of the objects the
\* engine constructs without a parent
Null == -2
\* a value that passes if(x): neither undefined nor null
Truthy(x) == x # None /\ x # Null

\* object identities: the components, then the engine's keyboard and mouse
Comps == 1..MaxComp
KeyboardObj == MaxComp + 1
MouseObj == MaxComp + 2

VARIABLES
  \* EventManager
  events,       \* EventManager#events: the pending events, an Array used as a stack
  listeners,    \* EventManager#listeners: type -> Array of {obj, func}; absent key = undefined
  pc,           \* position of handleEvents: "idle", "loop" (while test), "call" (for loop)
  event,        \* handleEvents' local `event`
  i,            \* handleEvents' local `i` (1-based)
  nextId,       \* identity of the next Event object constructed
  nextRid,      \* identity of the next {obj, func} record constructed
  passNo,       \* number of handleEvents calls made so far
  passStart,    \* history: EventManager#events when the current pass was entered
  passListeners,\* history: EventManager#listeners when the current pass was entered
  passPub,      \* history: handler publications in the current pass
  passReg,      \* history: handler registrations in the current pass
  published,    \* history: per event id, its type, the pass it was published in, the queue then
  registered,   \* history: per listener record, the addListenerFor arguments
  popped,       \* history: the events removed from the queue, in order, with the pass
  log,          \* history: the handler calls made, in order
  \* Engine registry and EngineComponent tree
  objects,      \* Engine#objects: the registry, object identities in insertion order
  guidCounter,  \* Engine#guidCounter
  guid,         \* EngineObject#guid of every object
  parent,       \* EngineComponent#parent of every component (None = undefined / null)
  childComponents, \* EngineComponent#childComponents of every component
  ops,          \* number of component operations made so far
  lastOp,       \* history: the last component operation, its arguments and the state before it
  trace,        \* history: the steps of the last destroy() call
  threw,        \* the last operation ended with a RangeError (stack exhausted)
  \* Button and Time
  key,          \* the fields of one Button (a key of the KeyBoard)
  current,      \* Time#current: the time the latest Time.update() read
  upAt,         \* history: engine time of the latest up-signal that released the button
  resetAt,      \* history: engine time of the latest reset()
  bLast,        \* history: the last Button call, the button before it, the engine time
  \* Engine
  instance,     \* Junkpile.Engine.instance: None (null) or the engine
  made,         \* number of `new Engine` attempts so far
  ctor,         \* history: how the last `new Engine` ended and Engine.instance before it
  attempt,      \* history: the last direct construction of an abstract class, the registry
                \* and the GUID counter before it, and whether it threw
  lastSignal,   \* history: the latest key signal of the host, "down" or "up"
  isSetup,      \* Engine#isSetup
  started,      \* Engine#updateFunction is set
  scheduled,    \* frames requested with requestAnimationFrame and not yet run
  frameNo,      \* number of gameLoop invocations that passed the guard
  frame,        \* history: the steps of the last gameLoop invocation
  lastStep,     \* history: the last engine operation
  \* KeyBoard and Mouse
  isCreatingString, \* KeyBoard#isCreatingString
  inputString,  \* KeyBoard#inputString, a sequence of characters
  keys,         \* KeyBoard#keys: key code -> Button; absent code = undefined
  buttons,      \* Mouse#buttons: button code -> Button
  kOps,         \* number of KeyBoard / Mouse calls made so far
  kLast,        \* history: the last KeyBoard / Mouse call and the state before it
  typed,        \* history: the characters pressed since recording started; clean =
                \* nothing but printable key presses since then
  \* GameObject and Transform
  transforms,   \* Transform component -> its position, velocity, acceleration, scale,
                \* parentTransform, superParent, parentLastPosition, parentLastScale
  transform,    \* GameObject#transform
  attachedToParent, \* GameObject#attachedToParent
  born,         \* number of game objects constructed so far
  steps,        \* number of constructions, writes, re-parentings and frames so far
  sawAt,        \* history: per Transform, the Transforms and the parents as they were
                \* when its last update() began (at its construction before the first)
  tLast,        \* history: the last operation on the game objects
  tPrev,        \* history: the frame before the last one, when nothing came between
  \* Users
  userObjects,  \* Engine#userObjects: an Array, element k + 1 here is index k there;
                \* None is undefined (a hole, or an index past the length)
  roster,       \* history: user ID -> the user added under it and not removed since
  uLast         \* history: the last call on the user table and what it returned

emVars == <<events, listeners, pc, event, i, nextId, nextRid, passNo, passStart,
            passListeners, passPub, passReg, published, registered, popped, log>>

compVars == <<objects, guidCounter, guid, parent, childComponents, ops, lastOp, trace, threw>>

btnVars == <<key, current, upAt, resetAt, bLast>>

engVars == <<instance, made, ctor, attempt, lastSignal, isSetup, started, scheduled, frameNo,
             frame, lastStep>>

kbVars == <<isCreatingString, inputString, keys, buttons, kOps, kLast, typed>>

trVars == <<transforms, transform, attachedToParent, born, steps, sawAt, tLast, tPrev>>

userVars == <<userObjects, roster, uLast>>

vars == <<emVars, compVars, btnVars, engVars, kbVars, trVars, userVars>>

\* what the actions of one part leave alone
notEM == <<compVars, btnVars, engVars, kbVars, trVars, userVars>>
notComp == <<emVars, btnVars, engVars, kbVars, trVars, userVars>>
notBtn == <<emVars, compVars, engVars, kbVars, trVars, userVars>>
\* the engine's operations work on its registry, event queue, keyboard and Time
engRest == <<pc, event, i, nextRid, passNo, passStart, passListeners, passPub, passReg,
             published, registered, popped, log, parent, childComponents, ops, lastOp,
             trace, threw, upAt, resetAt, bLast, kbVars, trVars, userVars>>
\* the keyboard's and the mouse's operations work on their own fields and read the Time
kbRest == <<emVars, compVars, btnVars, instance, made, ctor, attempt, lastSignal, started,
            scheduled, frameNo, frame, lastStep, trVars, userVars>>
\* the game objects and their Transforms live in the registry and the component tree
trRest == <<emVars, btnVars, engVars, kbVars, userVars>>
\* the user table lives beside the registry and the component tree
userRest == <<emVars, btnVars, engVars, kbVars>>

(***************************************************************************)
(* EventManager                                                            *)
(***************************************************************************)
\* constructor: both tables empty
EMFields ==
  /\ events = <<>>
  /\ listeners = <<>>
  /\ pc = "idle"
  /\ event = None
  /\ i = 0
  /\ nextId = 1
  /\ nextRid = 1
  /\ passNo = 0
  /\ passStart = <<>>
  /\ passListeners = <<>>
  /\ passPub = 0
  /\ passReg = 0
  /\ published = <<>>
  /\ registered = <<>>
  /\ popped = <<>>
  /\ log = <<>>

\* a publication that lands at the front of the array (unshift)
addEventFront(evs, e) == <<e>> \o evs
\* addEvent: this.events.push(event)
addEvent(evs, e) == Append(evs, e)

\* a registration that lands at the front of the type's array (unshift)
addListenerForFront(ls, typeID, rec) ==
  IF typeID \in DOMAIN ls
    THEN [ls EXCEPT ![typeID] = <<rec>> \o @]
    ELSE [t \in (DOMAIN ls) \cup {typeID} |-> IF t = typeID THEN <<rec>> ELSE ls[t]]
\* addListenerFor: create the type's array when undefined, then push {obj, func}
addListenerFor(ls, typeID, rec) ==
  IF typeID \in DOMAIN ls
    THEN [ls EXCEPT ![typeID] = Append(@, rec)]
    ELSE [t \in (DOMAIN ls) \cup {typeID} |-> IF t = typeID THEN <<rec>> ELSE ls[t]]

\* a while test that stops one event early
LoopCondEarly(evs) == Len(evs) > 1
\* the while test of handleEvents
LoopCond(evs) == Len(evs) > 0

\* a removal from the front of the array (shift)
PopIndexFifo(evs) == 1
\* this.events.pop(): the element taken ...
PopIndex(evs) == Len(evs)
\* a pop that takes two elements off the array
PopRestTwo(evs) == [k \in 1..(IF Len(evs) > 2 THEN Len(evs) - 2 ELSE 0) |-> evs[k]]
\* ... and the array left behind
PopRest(evs) == [k \in 1..(Len(evs) - 1) |->
                   IF k < PopIndex(evs) THEN evs[k] ELSE evs[k + 1]]

\* a for loop that starts one listener late
FirstListenerLate(ls) == 2
\* the first index of the for loop over currentListeners (var i = 0, 1-based here)
FirstListener(ls) == 1

\* the arguments of one handler call: func(event, obj)
CallArgs(ev, rec) == [ev |-> ev.id, rid |-> rec.rid, obj |-> rec.obj, func |-> rec.func]

\* a new Event object of type t, published in pass p with the queue q in front of it
Publish(t, p) ==
  /\ nextId <= MaxEvents
  /\ events' = addEvent(events, [id |-> nextId, type |-> t])
  /\ published' = Append(published, [type |-> t, pass |-> p, older |-> [k \in 1..Len(events) |-> events[k].id]])
  /\ nextId' = nextId + 1

\* a new listener record for type t
Register(t) ==
  /\ nextRid <= MaxListeners
  /\ listeners' = addListenerFor(listeners, t, [rid |-> nextRid, obj |-> HandlerObj(nextRid),
                                                   func |-> HandlerFunc(nextRid)])
  /\ registered' = Append(registered, [type |-> t, obj |-> HandlerObj(nextRid),
                                          func |-> HandlerFunc(nextRid)])
  /\ nextRid' = nextRid + 1

\* the host's callbacks (catchDocumentKeyDown, catchMouseDown, ...) publish between passes
HostAddEvent ==
  /\ UNCHANGED notEM
  /\ pc = "idle"
  /\ \E t \in Types : Publish(t, 0)
  /\ UNCHANGED <<listeners, pc, event, i, nextRid, passNo, passStart, passListeners,
                 passPub, passReg, registered, popped, log>>

\* KeyBoard.addToEventManager / Mouse.addToEventManager and game code register between passes
HostAddListener ==
  /\ UNCHANGED notEM
  /\ pc = "idle"
  /\ \E t \in Types : Register(t)
  /\ UNCHANGED <<events, pc, event, i, nextId, passNo, passStart, passListeners,
                 passPub, passReg, published, popped, log>>

\* handleEvents is entered (from gameLoop)
HandleEventsEnter ==
  /\ UNCHANGED notEM
  /\ pc = "idle"
  /\ passNo < MaxPasses
  /\ pc' = "loop"
  /\ passNo' = passNo + 1
  /\ passStart' = events
  /\ passListeners' = listeners
  /\ passPub' = 0
  /\ passReg' = 0
  /\ UNCHANGED <<events, listeners, event, i, nextId, nextRid, published, registered, popped, log>>

\* one turn of the while loop up to the for loop: pop, look the listeners up, continue if none
HandleEventsPop ==
  /\ UNCHANGED notEM
  /\ pc = "loop"
  /\ LoopCond(events)
  /\ event' = events[PopIndex(events)]
  /\ events' = PopRest(events)
  /\ popped' = Append(popped, [id |-> events[PopIndex(events)].id, pass |-> passNo,
                               regs |-> IF events[PopIndex(events)].type \in DOMAIN listeners
                                          THEN Len(listeners[events[PopIndex(events)].type])
                                          ELSE 0])
  /\ IF events[PopIndex(events)].type \in DOMAIN listeners
       THEN /\ i' = FirstListener(listeners[events[PopIndex(events)].type])
            /\ pc' = IF i' <= Len(listeners[events[PopIndex(events)].type])
                       THEN "call" ELSE "loop"
       ELSE pc' = "loop" /\ i' = i
  /\ UNCHANGED <<listeners, nextId, nextRid, passNo, passStart, passListeners, passPub,
                 passReg, published, registered, log>>

\* one turn of the for loop: currentListeners[i].func(event, currentListeners[i].obj).
\* The handler is foreign code: it returns, or publishes an event, or registers a listener.
HandleEventsCall ==
  /\ UNCHANGED notEM
  /\ pc = "call"
  /\ i <= Len(listeners[event.type])
  /\ log' = Append(log, CallArgs(event, listeners[event.type][i]))
  /\ \/ UNCHANGED <<events, published, nextId, listeners, registered, nextRid, passPub, passReg>>
     \/ /\ \E t \in Types : Publish(t, passNo)
        /\ passPub' = passPub + 1
        /\ UNCHANGED <<listeners, registered, nextRid, passReg>>
     \/ /\ \E t \in Types : Register(t)
        /\ passReg' = passReg + 1
        /\ UNCHANGED <<events, published, nextId, passPub>>
  /\ i' = i + 1
  /\ pc' = IF i + 1 <= Len(listeners'[event.type]) THEN "call" ELSE "loop"
  /\ UNCHANGED <<event, passNo, passStart, passListeners, popped>>

\* the while test fails: handleEvents returns
HandleEventsReturn ==
  /\ UNCHANGED notEM
  /\ pc = "loop"
  /\ ~LoopCond(events)
  /\ pc' = "idle"
  /\ UNCHANGED <<events, listeners, event, i, nextId, nextRid, passNo, passStart,
                 passListeners, passPub, passReg, published, registered, popped, log>>

EMNext ==
  \/ HostAddEvent
  \/ HostAddListener
  \/ HandleEventsEnter
  \/ HandleEventsPop
  \/ HandleEventsCall
  \/ HandleEventsReturn

\* the sequences of at most n event types
TypeSeqs(n) == UNION {[1..m -> Types] : m \in 0..n}
\* the queue after the host has published events of the types ts, in that order
QueuedEvents(ts) == [k \in 1..Len(ts) |-> [id |-> k, type |-> ts[k]]]
\* the listener table after the first k registrations for the types ts, in that order
RECURSIVE Listening(_, _)
Listening(ts, k) ==
  IF k = 0 THEN <<>>
  ELSE addListenerFor(Listening(ts, k - 1), ts[k],
                      [rid |-> k, obj |-> HandlerObj(k), func |-> HandlerFunc(k)])

\* an EventManager between two passes: the host has published some events and then
\* registered some listeners, and no pass has run yet
EMQueued ==
  \E ets \in TypeSeqs(MaxEvents), lts \in TypeSeqs(MaxListeners) :
    /\ events = QueuedEvents(ets)
    /\ listeners = Listening(lts, Len(lts))
    /\ pc = "idle"
    /\ event = None
    /\ i = 0
    /\ nextId = Len(ets) + 1
    /\ nextRid = Len(lts) + 1
    /\ passNo = 0
    /\ passStart = <<>>
    /\ passListeners = <<>>
    /\ passPub = 0
    /\ passReg = 0
    /\ published = [k \in 1..Len(ets) |->
                      [type |-> ets[k], pass |-> 0, older |-> [j \in 1..(k - 1) |-> j]]]
    /\ registered = [k \in 1..Len(lts) |->
                       [type |-> lts[k], obj |-> HandlerObj(k), func |-> HandlerFunc(k)]]
    /\ popped = <<>>
    /\ log = <<>>

\* the dispatch passes alone
PassNext ==
  \/ HandleEventsEnter
  \/ HandleEventsPop
  \/ HandleEventsCall
  \/ HandleEventsReturn

(***************************************************************************)
(* Engine registry, EngineObject, EngineComponent                          *)
(***************************************************************************)
\* Engine.constructor: objects = [], then KeyBoard and Mouse are constructed (and take
\* their GUID from the still undefined counter), then guidCounter = 0
EngineObjects == <<KeyboardObj, MouseObj>>

\* EngineObject.constructor run for the components 1..MaxComp in turn:
\* this.guid = engine.guidCounter++; this.engine.objects.push(this)
GuidOf(o) == IF o \in Comps THEN o - 1 ELSE NaN
Constructed == [k \in 1..MaxComp |-> k]

\* guid === guid: NaN equals nothing
GuidEq(a, b) == a # NaN /\ b # NaN /\ a = b

\* Array.indexOf: the first position of x in s, 0 when absent
IndexOf(s, x) == IF \E k \in 1..Len(s) : s[k] = x
                   THEN CHOOSE k \in 1..Len(s) : s[k] = x /\ \A j \in 1..(k - 1) : s[j] # x
                   ELSE 0

\* Array.splice(k, 1)
Splice(s, k) == [j \in 1..(Len(s) - 1) |-> IF j < k THEN s[j] ELSE s[j + 1]]

\* Engine.remove: splice the first registry entry whose guid matches, if any
EngineRemove(objs, g) ==
  IF \E k \in 1..Len(objs) : GuidEq(guid[objs[k]], g)
    THEN Splice(objs, CHOOSE k \in 1..Len(objs) :
                        /\ GuidEq(guid[objs[k]], g)
                        /\ \A j \in 1..(k - 1) : ~GuidEq(guid[objs[j]], g))
    ELSE objs

\* what Engine.remove hands back: the Array that splice(i, 1) returns, holding the
\* spliced object, or null
Returned(objs, g) ==
  IF \E k \in 1..Len(objs) : GuidEq(guid[objs[k]], g)
    THEN [kind |-> "Array",
          items |-> <<objs[CHOOSE k \in 1..Len(objs) :
                             /\ GuidEq(guid[objs[k]], g)
                             /\ \A j \in 1..(k - 1) : ~GuidEq(guid[objs[j]], g)]>>]
    ELSE [kind |-> "null", items |-> <<>>]

\* The component state an operation works on: st.objects, st.parent, st.children,
\* and the history st.trace, st.threw.

\* an index test that always passes
FoundAlways(s, c) == TRUE
\* var i = this.childComponents.indexOf(component); if(i > -1)
Found(s, c) == IndexOf(s, c) > 0

\* what a.removeComponent(c) hands back: the component, or undefined
removeComponentReturn(st, a, c) ==
  IF Found(st.children[a], c)
    THEN [kind |-> "object", items |-> <<c>>]
    ELSE [kind |-> "undefined", items |-> <<>>]

\* removeComponent: a.removeComponent(c)
removeComponent(st, a, c) ==
  IF Found(st.children[a], c)
    THEN [st EXCEPT !.children[a] = Splice(@, IndexOf(st.children[a], c)),
                    !.parent[c] = None]
    ELSE st

\* a removeComponent call that names the component added
DetachArgComponent(a, c) == c
\* the argument of the removeComponent call inside a.addChildComponent(c): `this`
DetachArg(a, c) == a

\* this.childComponents.push(component)
PushChild(s, c) == Append(s, c)

\* addChildComponent: a.addChildComponent(c)
addChildComponent(st, a, c) ==
  LET pushed == [st EXCEPT !.children[a] = PushChild(@, c)]
      detached == IF Truthy(pushed.parent[c])
                    THEN removeComponent(pushed, pushed.parent[c], DetachArg(a, c))
                    ELSE pushed
  IN  [detached EXCEPT !.parent[c] = a]

\* a destroyComponent that reclaims the registry entry last
DestroyOrderChildrenFirst == <<"detach", "children", "remove">>
\* the statements of destroyComponent, in order
DestroyOrder == <<"remove", "detach", "children">>

Registered(st, x) == \E k \in 1..Len(st.objects) : st.objects[k] = x
LiveKids(st, x) == {y \in Comps \ {x} : IndexOf(st.children[x], y) > 0 /\ Registered(st, y)}

RECURSIVE destroyComponent(_, _, _)
RECURSIVE DestroyPhase(_, _, _, _)
RECURSIVE DestroyEach(_, _, _, _)

\* one statement of x.destroyComponent(). In the deepest frame the stack holds, the
\* statement's own call (engine.remove, removeComponent) is where the stack may run out:
\* st.room says how many of them that frame still completes.
DestroyPhase(st, x, ph, depth) ==
  IF st.threw THEN st
  ELSE IF ph = "remove"
    THEN IF depth = StackLimit /\ st.room < 1 THEN [st EXCEPT !.threw = TRUE]
         ELSE LET r == [st EXCEPT !.objects = EngineRemove(@, guid[x])]
              IN  [r EXCEPT !.trace = Append(@, [op |-> "remove", who |-> x,
                                                 live |-> LiveKids(r, x)])]
  ELSE IF ph = "detach"
    THEN IF depth = StackLimit /\ st.room < 2 /\ Truthy(st.parent[x])
           THEN [st EXCEPT !.threw = TRUE]
         ELSE LET r == IF Truthy(st.parent[x]) THEN removeComponent(st, st.parent[x], x) ELSE st
              IN  [r EXCEPT !.trace = Append(@, [op |-> "detach", who |-> x,
                                                 live |-> LiveKids(r, x)])]
  ELSE DestroyEach(st, st.children[x], 1, depth)

\* for(var i in arrayCopy) arrayCopy[i].destroy()
DestroyEach(st, arrayCopy, k, depth) ==
  IF st.threw \/ k > Len(arrayCopy) THEN st
  ELSE DestroyEach(destroyComponent(st, arrayCopy[k], depth + 1), arrayCopy, k + 1, depth)

\* destroy / destroyComponent: x.destroy() at call depth `depth`
destroyComponent(st, x, depth) ==
  IF st.threw THEN st
  ELSE IF depth > StackLimit THEN [st EXCEPT !.threw = TRUE]
  ELSE LET entered == [st EXCEPT !.trace = Append(@, [op |-> "destroy", who |-> x,
                                                      live |-> LiveKids(st, x)])]
       IN  DestroyPhase(DestroyPhase(DestroyPhase(entered, x, DestroyOrder[1], depth),
                                     x, DestroyOrder[2], depth),
                        x, DestroyOrder[3], depth)

\* the components reached from x through child lists (x excluded unless on a cycle)
RECURSIVE Reach(_, _, _)
Reach(ch, front, seen) ==
  LET next == {y \in Comps : \E z \in front : IndexOf(ch[z], y) > 0} \ seen
  IN  IF next = {} THEN seen ELSE Reach(ch, next, seen \cup next)
Descendants(ch, x) == Reach(ch, {x}, {})

CompState == [objects |-> objects, parent |-> parent, children |-> childComponents,
              trace |-> <<>>, threw |-> FALSE, room |-> 2]

NoOp == [op |-> "none", a |-> None, c |-> None, prevParent |-> None, pre |-> <<>>,
         desc |-> {}, preObjects |-> <<>>, ret |-> [kind |-> "none", items |-> <<>>],
         aParent |-> None, aListed |-> FALSE]

\* EngineComponent.constructor for component c with parent argument p:
\* this.parent = parent; this.childComponents = []
Construct(st, c, p) == [st EXCEPT !.parent[c] = p, !.children[c] = <<>>]

\* The set-up code constructs the components one after the other, each with no parent
\* or with a component constructed before it as the parent argument, and in the second
\* case may attach it straight away: new C(engine, name, p); p.addChildComponent(c)
\* (GameObject.constructor, Engine.createUser, Engine.addUserAvatar).
RECURSIVE SetUps(_)
SetUps(n) ==
  IF n = 0
    THEN {[objects |-> EngineObjects \o Constructed,
           parent |-> [c \in Comps |-> None],
           children |-> [c \in Comps |-> <<>>],
           trace |-> <<>>, threw |-> FALSE, room |-> 2]}
    ELSE UNION {{Construct(st, n, None)}
                  \cup {Construct(st, n, p) : p \in 1..(n - 1)}
                  \cup {addChildComponent(Construct(st, n, p), p, n) : p \in 1..(n - 1)}
                : st \in SetUps(n - 1)}

\* the state after the engine is constructed and the set-up code has run
CompFields ==
  /\ guidCounter = MaxComp
  /\ guid = [o \in Comps \cup {KeyboardObj, MouseObj} |-> GuidOf(o)]
  /\ \E st \in SetUps(MaxComp) :
       /\ objects = st.objects
       /\ parent = st.parent
       /\ childComponents = st.children
  /\ ops = 0
  /\ lastOp = NoOp
  /\ trace = <<>>
  /\ threw = FALSE

Commit(st) ==
  /\ objects' = st.objects
  /\ parent' = st.parent
  /\ childComponents' = st.children
  /\ trace' = st.trace
  /\ threw' = st.threw
  /\ ops' = ops + 1
  /\ UNCHANGED <<guidCounter, guid>>

\* game code calls a.addChildComponent(c)
AddChildComponent ==
  /\ UNCHANGED notComp
  /\ ops < MaxOps
  /\ \E a \in Comps, c \in Comps :
       /\ Commit(addChildComponent(CompState, a, c))
       /\ lastOp' = [NoOp EXCEPT !.op = "add", !.a = a, !.c = c, !.prevParent = parent[c],
                                  !.pre = childComponents[a], !.aParent = parent[a],
                                  !.aListed = /\ parent[a] # None
                                              /\ IndexOf(childComponents[parent[a]], a) > 0]

\* game code calls a.removeComponent(c)
RemoveComponent ==
  /\ UNCHANGED notComp
  /\ ops < MaxOps
  /\ \E a \in Comps, c \in Comps :
       /\ Commit(removeComponent(CompState, a, c))
       /\ lastOp' = IF lastOp.op = "add" /\ lastOp.a = a /\ lastOp.c = c
                       THEN [lastOp EXCEPT !.op = "addremove"]
                       ELSE [NoOp EXCEPT !.op = "remove", !.a = a, !.c = c,
                                         !.prevParent = parent[c], !.pre = childComponents[a],
                                         !.ret = removeComponentReturn(CompState, a, c)]

\* game code calls x.destroy()
Destroy ==
  /\ UNCHANGED notComp
  /\ ops < MaxOps
  /\ \E x \in Comps, room \in 0..2 :
       /\ Commit(destroyComponent([CompState EXCEPT !.room = room], x, 1))
       /\ lastOp' = [NoOp EXCEPT !.op = "destroy", !.c = x, !.prevParent = parent[x],
                                  !.desc = Descendants(childComponents, x),
                                  !.preObjects = objects]

\* game code calls engine.remove(g) with the GUID of an object or with a number that
\* is no object's GUID
Remove ==
  /\ UNCHANGED notComp
  /\ ops < MaxOps
  /\ \E g \in {guid[o] : o \in DOMAIN guid} \cup {guidCounter} :
       /\ Commit([CompState EXCEPT !.objects = EngineRemove(@, g)])
       /\ lastOp' = [NoOp EXCEPT !.op = "engineRemove", !.a = g, !.preObjects = objects,
                                  !.ret = Returned(objects, g)]

CompNext ==
  \/ AddChildComponent
  \/ RemoveComponent
  \/ Destroy
  \/ Remove


(***************************************************************************)
(* Button and Time                                                         *)
(***************************************************************************)
\* Time.getTime(): the time of the latest Time.update(), not the time of the call
getTime == current

\* Button.constructor (the modifier flags and domEvent are copies of the last signal
\* and decide nothing)
NewButton == [enabled |-> TRUE, isUp |-> TRUE, isDown |-> FALSE,
              timeDown |-> 0, timeUp |-> 0, duration |-> 0]

\* Button.update()
Button_update(b, t) ==
  IF ~b.enabled THEN b
  ELSE IF b.isDown THEN [b EXCEPT !.duration = t - b.timeDown]
  ELSE b

\* a reset that leaves the enabled flag as it is
Button_resetKeepsEnabled(b, t) ==
  [b EXCEPT !.isDown = FALSE, !.isUp = TRUE, !.timeUp = t, !.duration = 0]
\* Button.reset()
Button_reset(b, t) ==
  [b EXCEPT !.enabled = TRUE, !.isDown = FALSE, !.isUp = TRUE, !.timeUp = t, !.duration = 0]

\* a processButtonUp that releases a disabled button too
UpIgnoredWhenUp(b) == b.isUp
\* the early returns of processButtonUp
UpIgnored(b) == ~b.enabled \/ b.isUp

\* a processButtonUp that forgets to clear isDown
processButtonUpKeepsDown(b, t) ==
  IF UpIgnored(b) THEN b
  ELSE [b EXCEPT !.isUp = TRUE, !.timeUp = t, !.duration = t - b.timeDown]
\* Button.processButtonUp(domEvent)
processButtonUp(b, t) ==
  IF UpIgnored(b) THEN b
  ELSE [b EXCEPT !.isUp = TRUE, !.isDown = FALSE, !.timeUp = t, !.duration = t - b.timeDown]

\* a debounce test that also rejects a press exactly BTN_DELAY after the release
DoubleFiringInclusive(b, t) == (t - b.timeUp) <= BTN_DELAY
\* the debounce test of processButtonDown
DoubleFiring(b, t) == (t - b.timeUp) < BTN_DELAY

\* Button.processButtonDown(domEvent)
processButtonDown(b, t) ==
  IF ~b.enabled THEN b
  ELSE IF b.isDown THEN b
  ELSE IF DoubleFiring(b, t) THEN b
  ELSE [b EXCEPT !.isUp = FALSE, !.isDown = TRUE, !.timeDown = t, !.duration = 0]

\* a downDuration that counts the threshold itself as recent
downDurationInclusive(b, duration) == b.isDown /\ b.duration <= duration
\* Button.downDuration(duration)
downDuration(b, duration) == b.isDown /\ b.duration < duration

BtnFields ==
  /\ key = NewButton
  /\ current = T0
  /\ upAt = None
  /\ resetAt = None
  /\ bLast = [op |-> "new", pre |-> NewButton, t |-> T0]

BtnIdle == BtnFields

BCall(op, b) ==
  /\ key' = b
  /\ bLast' = [op |-> op, pre |-> key, t |-> getTime]

\* Time.update(): this.current = Date.now()
TimeUpdate ==
  /\ UNCHANGED notBtn
  /\ current + FrameMs <= T0 + MaxElapsed
  /\ current' = current + FrameMs
  /\ UNCHANGED <<key, upAt, resetAt, bLast>>

\* a down-signal reaches the button
ProcessButtonDown ==
  /\ UNCHANGED notBtn
  /\ BCall("down", processButtonDown(key, getTime))
  /\ UNCHANGED <<current, upAt, resetAt>>

\* an up-signal reaches the button
ProcessButtonUp ==
  /\ UNCHANGED notBtn
  /\ BCall("up", processButtonUp(key, getTime))
  /\ upAt' = IF key.isDown /\ processButtonUp(key, getTime).isUp THEN getTime ELSE upAt
  /\ UNCHANGED <<current, resetAt>>

\* KeyBoard.update() / Mouse.update() call the button's update()
ButtonUpdate ==
  /\ UNCHANGED notBtn
  /\ BCall("update", Button_update(key, getTime))
  /\ UNCHANGED <<current, upAt, resetAt>>

\* KeyBoard.reset() / Mouse.reset() call the button's reset()
ButtonReset ==
  /\ UNCHANGED notBtn
  /\ BCall("reset", Button_reset(key, getTime))
  /\ resetAt' = getTime
  /\ UNCHANGED <<current, upAt>>

\* game code writes the public field Button#enabled
SetEnabled ==
  /\ UNCHANGED notBtn
  /\ \E e \in BOOLEAN : BCall("enable", [key EXCEPT !.enabled = e])
  /\ UNCHANGED <<current, upAt, resetAt>>

BtnNext ==
  \/ TimeUpdate
  \/ ProcessButtonDown
  \/ ProcessButtonUp
  \/ ButtonUpdate
  \/ ButtonReset
  \/ SetEnabled

(***************************************************************************)
(* Engine: constructor, setup, start, gameLoop, host callbacks             *)
(***************************************************************************)
\* a constructor that never finds an instance
SingletonTakenNever(inst) == FALSE
\* if (Junkpile.Engine.instance) throw ...
SingletonTaken(inst) == inst # None

\* a gameLoop that only looks for the instance
LoopGuardInstanceOnly(inst, setup) == inst = None
\* if(!Junkpile.Engine.instance || !Junkpile.Engine.instance.isSetup) return
LoopGuard(inst, setup) == inst = None \/ ~setup

\* a gameLoop that requests the next frame after the external callback
GameLoopOrderRequestLate == <<"time", "events", "update", "callback", "request", "render">>
\* the statements of gameLoop, in the order of the source
GameLoopOrder == <<"request", "time", "events", "update", "callback", "render">>

\* the registry of a freshly constructed engine and the GUIDs of its two objects
NewGuids == [o \in {KeyboardObj, MouseObj} |-> GuidOf(o)]

\* the state one gameLoop invocation works on, with the history g.frame
G == [events |-> events, key |-> key, objects |-> objects, current |-> current,
      scheduled |-> scheduled, frame |-> <<>>, ms |-> FrameMs]
Mark(g, ph, who) == [g EXCEPT !.frame = Append(@, [ph |-> ph, who |-> who, reg |-> g.objects])]

\* one listener call of handleEvents: KeyBoard.processKeyEvent(keyevent, obj)
CallListener(g, ev, rec) ==
  IF rec.func = HandlerFunc(1)
    THEN [g EXCEPT !.key = IF ev.keyDown THEN processButtonDown(@, g.current)
                                         ELSE processButtonUp(@, g.current)]
    ELSE g

RECURSIVE CallEach(_, _, _, _)
CallEach(g, ev, ls, k) ==
  IF k > Len(ls) THEN g ELSE CallEach(CallListener(g, ev, ls[k]), ev, ls, k + 1)

\* EventManager.handleEvents with the engine's own listeners, which publish nothing
RECURSIVE handleEvents(_)
handleEvents(g) ==
  IF ~LoopCond(g.events) THEN g
  ELSE LET ev == g.events[PopIndex(g.events)]
           g1 == [g EXCEPT !.events = PopRest(g.events)]
       IN  handleEvents(IF ev.type \in DOMAIN listeners
                          THEN CallEach(g1, ev, listeners[ev.type], FirstListener(listeners[ev.type]))
                          ELSE g1)

\* objects[i].update(): the keyboard updates its keys; a game object's update() is game
\* code, which here removes the object d[o] from the engine (None: removes nothing)
ObjectUpdate(g, o, d) ==
  LET r == IF o = KeyboardObj THEN [g EXCEPT !.key = Button_update(@, g.current)]
           ELSE IF o \in Comps /\ d[o] # None /\ d[o] \in DOMAIN guid
             THEN [g EXCEPT !.objects = EngineRemove(@, guid[d[o]])]
           ELSE g
  IN  Mark(r, "update", o)

\* for(var i in objects) objects[i].update(): the keys 0..n-1 are those the array has
\* when the loop starts, and a key the array no longer has when its turn comes is skipped
RECURSIVE UpdateEach(_, _, _, _)
UpdateEach(g, k, n, d) ==
  IF k > n THEN g
  ELSE IF k > Len(g.objects) THEN UpdateEach(g, k + 1, n, d)
  ELSE UpdateEach(ObjectUpdate(g, g.objects[k], d), k + 1, n, d)

\* one statement of gameLoop
Phase(g, ph, d) ==
  IF ph = "request" THEN Mark([g EXCEPT !.scheduled = @ + 1], ph, None)
  ELSE IF ph = "time" THEN Mark([g EXCEPT !.current = @ + g.ms], ph, None)
  ELSE IF ph = "events" THEN Mark(handleEvents(g), ph, None)
  ELSE IF ph = "update" THEN UpdateEach(g, 1, Len(g.objects), d)
  ELSE Mark(g, ph, None)

RECURSIVE Phases(_, _, _)
Phases(g, k, d) ==
  IF k > Len(GameLoopOrder) THEN g ELSE Phases(Phase(g, GameLoopOrder[k], d), k + 1, d)

\* Engine.gameLoop
gameLoop(g, d) == IF LoopGuard(instance, isSetup) THEN g ELSE Phases(g, 1, d)

\* what the update() of each registered game object does in one frame: nothing, or
\* remove a registered game object (itself or another)
GameObjects == {o \in Comps : \E k \in 1..Len(objects) : objects[k] = o}
UpdateCodes == [GameObjects -> {None} \cup GameObjects]

RunLoop(g) ==
  /\ events' = g.events
  /\ key' = g.key
  /\ objects' = g.objects
  /\ current' = g.current
  /\ scheduled' = g.scheduled
  /\ frame' = g.frame
  /\ frameNo' = IF g.frame = <<>> THEN frameNo ELSE frameNo + 1

NoAttempt == [cls |-> "none", threw |-> FALSE, objects |-> <<>>, guidCounter |-> None]

EngFields ==
  /\ instance = None
  /\ made = 0
  /\ ctor = [result |-> "none", before |-> None]
  /\ attempt = NoAttempt
  /\ lastSignal = "none"
  /\ isSetup = FALSE
  /\ started = FALSE
  /\ scheduled = 0
  /\ frameNo = 0
  /\ frame = <<>>
  /\ lastStep = "none"

EngIdle == EngFields

\* new Junkpile.Engine(setupCallback, assets): the singleton test, the fields (registry,
\* keyboard, mouse, guidCounter), the assets test, then Engine.instance = this
NewEngine ==
  /\ UNCHANGED engRest
  /\ made < MaxCtor
  /\ made' = made + 1
  /\ lastStep' = "new"
  /\ \E assetsOk \in BOOLEAN :
       IF SingletonTaken(instance) \/ ~assetsOk
         THEN /\ ctor' = [result |-> "Error", before |-> instance]
              /\ UNCHANGED <<instance, objects, guid, guidCounter>>
         ELSE /\ ctor' = [result |-> "ok", before |-> instance]
              /\ instance' = made + 1
              /\ objects' = EngineObjects
              /\ guid' = NewGuids
              /\ guidCounter' = 0
  /\ UNCHANGED <<isSetup, started, scheduled, frameNo, frame, events, listeners, nextId,
                 key, current, attempt, lastSignal>>

\* engine.setup() (assets.background, which is optional, not given)
Setup ==
  /\ UNCHANGED engRest
  /\ instance # None
  /\ isSetup' = TRUE
  /\ lastStep' = "setup"
  /\ UNCHANGED <<instance, made, ctor, attempt, lastSignal,
                 started, scheduled, frameNo, frame, objects, guid,
                 guidCounter, events, listeners, nextId, key, current>>

\* engine.start(updateFunction): sets the callback and calls gameLoop
Start ==
  /\ UNCHANGED engRest
  /\ instance # None
  /\ frameNo < MaxFrames
  /\ started' = TRUE
  /\ lastStep' = "start"
  /\ \E d \in UpdateCodes : RunLoop(gameLoop(G, d))
  /\ UNCHANGED <<instance, made, ctor, attempt, lastSignal,
                 isSetup, guid, guidCounter, listeners, nextId>>

\* the host scheduler runs a requested frame: gameLoop
Frame ==
  /\ UNCHANGED engRest
  /\ scheduled > 0
  /\ frameNo < MaxFrames
  /\ lastStep' = "frame"
  /\ \E d \in UpdateCodes : RunLoop(gameLoop([G EXCEPT !.scheduled = @ - 1], d))
  /\ UNCHANGED <<instance, made, ctor, attempt, lastSignal,
                 isSetup, started, guid, guidCounter, listeners, nextId>>

\* a stray call of the static gameLoop while no engine exists
GameLoopDirect ==
  /\ UNCHANGED engRest
  /\ instance = None
  /\ lastStep # "gameLoop"
  /\ lastStep' = "gameLoop"
  /\ \E d \in UpdateCodes : RunLoop(gameLoop(G, d))
  /\ UNCHANGED <<instance, made, ctor, attempt, lastSignal,
                 isSetup, started, guid, guidCounter, listeners, nextId>>

\* game code constructs an EngineObject subclass: guid = engine.guidCounter++, push
NewObject ==
  /\ UNCHANGED engRest
  /\ instance # None
  /\ guidCounter < MaxComp
  /\ LET o == guidCounter + 1
     IN  /\ guid' = [x \in DOMAIN guid \cup {o} |-> IF x = o THEN guidCounter ELSE guid[x]]
         /\ objects' = Append(objects, o)
  /\ guidCounter' = guidCounter + 1
  /\ lastStep' = "newObject"
  /\ UNCHANGED <<instance, made, ctor, attempt, lastSignal,
                 isSetup, started, scheduled, frameNo, frame, events,
                 listeners, nextId, key, current>>

\* the classes that may not be constructed directly
AbstractClasses == {"EngineObject", "EngineComponent", "GameObject"}
\* the constructors `new cls` runs, the base class first (each starts with super(...))
ConstructorChain(cls) ==
  IF cls = "EngineObject" THEN <<"EngineObject">>
  ELSE IF cls = "EngineComponent" THEN <<"EngineObject", "EngineComponent">>
  ELSE <<"EngineObject", "EngineComponent", "GameObject">>

\* an abstract test that only EngineObject makes
IsAbstractBaseOnly(cls, level) == cls = level /\ level = "EngineObject"
\* if (this.constructor === <the class of this constructor>) throw new Error(...)
IsAbstract(cls, level) == cls = level

\* the body of one constructor of the chain, on r = [threw, registered]:
\* EngineObject tests first and then takes a GUID and registers; EngineComponent and
\* GameObject test after super(...) has returned
RECURSIVE RunConstructors(_, _, _)
RunConstructors(cls, k, r) ==
  IF k > Len(ConstructorChain(cls)) \/ r.threw THEN r
  ELSE LET level == ConstructorChain(cls)[k]
       IN  RunConstructors(cls, k + 1,
             IF IsAbstract(cls, level) THEN [r EXCEPT !.threw = TRUE]
             ELSE IF level = "EngineObject" THEN [r EXCEPT !.registered = TRUE]
             ELSE r)

\* game code writes new EngineObject(...), new EngineComponent(...) or new GameObject(...)
NewAbstract ==
  /\ UNCHANGED engRest
  /\ instance # None
  /\ guidCounter < MaxComp
  /\ \E cls \in AbstractClasses :
       LET r == RunConstructors(cls, 1, [threw |-> FALSE, registered |-> FALSE])
           o == guidCounter + 1
       IN  /\ attempt' = [cls |-> cls, threw |-> r.threw, objects |-> objects,
                          guidCounter |-> guidCounter]
           /\ IF r.registered
                THEN /\ guid' = [x \in DOMAIN guid \cup {o} |->
                                   IF x = o THEN guidCounter ELSE guid[x]]
                     /\ objects' = Append(objects, o)
                     /\ guidCounter' = guidCounter + 1
                ELSE UNCHANGED <<guid, objects, guidCounter>>
  /\ lastStep' = "newAbstract"
  /\ UNCHANGED <<instance, made, ctor, lastSignal, isSetup, started, scheduled, frameNo,
                 frame, events, listeners, nextId, key, current>>

EngNext ==
  \/ NewEngine
  \/ Setup
  \/ Start
  \/ Frame
  \/ GameLoopDirect
  \/ NewObject

\* construction alone: the engine, objects of concrete classes, abstract classes
AbstractNext ==
  \/ NewEngine
  \/ NewObject
  \/ NewAbstract

(***************************************************************************)
(* Input: the host's key callbacks, the keyboard as a listener, the frames *)
(***************************************************************************)
\* new Junkpile.events.KeyEvent(key, down)
KeyEvent(id, down) == [id |-> id, type |-> "KeyEvent", keyDown |-> down]

\* catchDocumentKeyDown / catchDocumentKeyUp, the callbacks setup() hands to the window:
\* eventManager.addEvent(new KeyEvent(key, down)); keyboard.processKeyDown/Up(key)
CatchDocumentKey(down) ==
  /\ isSetup
  /\ nextId <= MaxEvents
  /\ events' = addEvent(events, KeyEvent(nextId, down))
  /\ nextId' = nextId + 1
  /\ key' = IF down THEN processButtonDown(key, getTime) ELSE processButtonUp(key, getTime)
  /\ lastSignal' = IF down THEN "down" ELSE "up"
  /\ UNCHANGED <<instance, made, ctor, attempt, isSetup, started, scheduled, frameNo, frame, objects,
                 guid, guidCounter, listeners, current>>

HostKeyDown ==
  /\ UNCHANGED engRest
  /\ lastStep' = "keyDown"
  /\ CatchDocumentKey(TRUE)

HostKeyUp ==
  /\ UNCHANGED engRest
  /\ lastStep' = "keyUp"
  /\ CatchDocumentKey(FALSE)

\* keyboard.addToEventManager(): the keyboard listens for KeyEvent and KeyPressEvent
AddToEventManager ==
  /\ UNCHANGED engRest
  /\ instance # None
  /\ "KeyEvent" \notin DOMAIN listeners
  /\ listeners' = addListenerFor(
                    addListenerFor(listeners, "KeyEvent",
                                   [rid |-> 1, obj |-> HandlerObj(1), func |-> HandlerFunc(1)]),
                    "KeyPressEvent",
                    [rid |-> 2, obj |-> HandlerObj(1), func |-> "processKeyPressEvent"])
  /\ lastStep' = "listen"
  /\ UNCHANGED <<instance, made, ctor, attempt, lastSignal,
                 isSetup, started, scheduled, frameNo, frame, objects,
                 guid, guidCounter, events, nextId, key, current>>

\* the host scheduler runs a requested frame late: gameLoop, with more time gone by
SlowFrame ==
  /\ UNCHANGED engRest
  /\ scheduled > 0
  /\ frameNo < MaxFrames
  /\ lastStep' = "frame"
  /\ \E d \in UpdateCodes :
       RunLoop(gameLoop([G EXCEPT !.scheduled = @ - 1, !.ms = SlowMs], d))
  /\ UNCHANGED <<instance, made, ctor, attempt, lastSignal, isSetup, started, guid,
                 guidCounter, listeners, nextId>>

InputNext ==
  \/ Start
  \/ Frame
  \/ SlowFrame
  \/ HostKeyDown
  \/ HostKeyUp
  \/ AddToEventManager

\* an engine that has been constructed and set up, not yet started
InputFields ==
  /\ instance = 1
  /\ made = 1
  /\ ctor = [result |-> "ok", before |-> None]
  /\ attempt = NoAttempt
  /\ lastSignal = "none"
  /\ isSetup = TRUE
  /\ started = FALSE
  /\ scheduled = 0
  /\ frameNo = 0
  /\ frame = <<>>
  /\ lastStep = "setup"
  /\ objects = EngineObjects
  /\ guid = NewGuids
  /\ guidCounter = 0
  /\ parent = <<>>
  /\ childComponents = <<>>
  /\ ops = 0
  /\ lastOp = NoOp
  /\ trace = <<>>
  /\ threw = FALSE

(***************************************************************************)
(* KeyBoard and Mouse: string recording, the Button tables                 *)
(***************************************************************************)
\* String.fromCharCode for the character codes the model types
FromCharCode(n) == IF n = 97 THEN "a" ELSE IF n = 98 THEN "b" ELSE "?"

\* the keypress events the host delivers: two printable keys, Enter plain and shifted
\* (keyCode and charCode of a keypress are the character code)
KeyPresses == {[keyCode |-> c, charCode |-> c, shiftKey |-> sh] :
                 c \in {97, 98}, sh \in {FALSE}}
              \cup {[keyCode |-> ENTER, charCode |-> ENTER, shiftKey |-> sh] : sh \in BOOLEAN}
\* the key codes of key-down / key-up signals: Backspace and A, which KeyCode lists,
\* and 173, which it does not
KnownCodes == {BACKSPACE, ENTER, 65}
SignalCodes == {BACKSPACE, 65, 173}
\* the mouse buttons the constructor creates (LEFT .. FORWARD) and the button codes of
\* the signals: the left button and 5, which has no Button
MouseButtons == 0..4
MouseCodes == {0, 5}

\* the KeyBoard an operation works on, with k.threw = an Error left the method
KB == [isCreatingString |-> isCreatingString, inputString |-> inputString, keys |-> keys,
       threw |-> FALSE]

\* a start that does not look at the flag
AlreadyRecordingNever(k) == FALSE
\* if (this.isCreatingString) throw ...
AlreadyRecording(k) == k.isCreatingString

\* KeyBoard.startRecordingStrings
startRecordingStrings(k) ==
  IF AlreadyRecording(k) THEN [k EXCEPT !.threw = TRUE]
  ELSE [k EXCEPT !.inputString = <<>>, !.isCreatingString = TRUE]

\* KeyBoard.stopRecordingStrings
stopRecordingStrings(k) ==
  IF ~k.isCreatingString THEN [k EXCEPT !.threw = TRUE]
  ELSE [k EXCEPT !.isCreatingString = FALSE]

\* an Enter test with the shift test inverted
CleanEnterShifted(ev) == ev.keyCode = ENTER /\ ev.shiftKey
\* (event.keyCode == KeyCode.ENTER) && !event.shiftKey
CleanEnter(ev) == ev.keyCode = ENTER /\ ~ev.shiftKey

\* a length test that lets one more character in
AtCapacityLate(str) == Len(str) > INPUTSTRING_LEN
\* this.inputString.length >= INPUTSTRING_LEN
AtCapacity(str) == Len(str) >= INPUTSTRING_LEN

\* KeyBoard.addToString
addToString(k, ev) ==
  IF k.isCreatingString
    THEN IF CleanEnter(ev) THEN stopRecordingStrings(k)
         ELSE IF AtCapacity(k.inputString) THEN k
         ELSE [k EXCEPT !.inputString =
                 Append(@, IF ev.keyCode = ENTER THEN "\n" ELSE FromCharCode(ev.charCode))]
    ELSE k

\* KeyBoard.processKeyPress
processKeyPress(k, ev) == IF k.isCreatingString THEN addToString(k, ev) ELSE k

\* String.substring(0, n): a negative n counts as 0
Substring0(str, n) == IF n <= 0 THEN <<>> ELSE SubSeq(str, 1, n)

\* a key table that never grows
EnsureKeyNever(ks, code) == ks
\* if (!this.keys[key]) this.keys[key] = new Button(this.engine, this, key)
EnsureKey(ks, code) ==
  IF code \in DOMAIN ks THEN ks
  ELSE [c \in DOMAIN ks \cup {code} |-> IF c = code THEN NewButton ELSE ks[c]]

\* KeyBoard.processKeyDown: the Button, then the Backspace rule of the recording
processKeyDown(k, code, t) ==
  LET ks == EnsureKey(k.keys, code)
  IN  IF code \notin DOMAIN ks THEN [k EXCEPT !.threw = TRUE]
      ELSE LET k1 == [k EXCEPT !.keys = [ks EXCEPT ![code] = processButtonDown(@, t)]]
           IN  IF k1.isCreatingString /\ code = BACKSPACE
                 THEN [k1 EXCEPT !.inputString = Substring0(@, Len(@) - 1)]
                 ELSE k1

\* KeyBoard.processKeyUp
processKeyUp(k, code, t) ==
  LET ks == EnsureKey(k.keys, code)
  IN  IF code \notin DOMAIN ks THEN [k EXCEPT !.threw = TRUE]
      ELSE [k EXCEPT !.keys = [ks EXCEPT ![code] = processButtonUp(@, t)]]

\* Mouse.processMouseDown / processMouseUp: if(this.buttons[domevent.button]) ...
processMouseDown(bs, code, t) ==
  IF code \in DOMAIN bs THEN [bs EXCEPT ![code] = processButtonDown(@, t)] ELSE bs
processMouseUp(bs, code, t) ==
  IF code \in DOMAIN bs THEN [bs EXCEPT ![code] = processButtonUp(@, t)] ELSE bs

\* n presses of the key a
Filled(n) == [k \in 1..n |-> "a"]

\* KeyBoard.constructor and Mouse.constructor
KbNew ==
  /\ isCreatingString = FALSE
  /\ inputString = <<>>
  /\ keys = <<>>
  /\ buttons = [b \in MouseButtons |-> NewButton]
  /\ kOps = 0
  /\ kLast = [op |-> "new", code |-> None, shiftKey |-> FALSE, pre |-> <<>>, preRec |-> FALSE,
              preKeys |-> {}, preButtons |-> {}, threw |-> FALSE]
  /\ typed = [chars |-> <<>>, clean |-> FALSE]

KbIdle == KbNew

\* The keyboard as constructed, or already recording with the key a pressed
\* INPUTSTRING_LEN - 2 times since startRecordingStrings
KbFields ==
  /\ keys = <<>>
  /\ buttons = [b \in MouseButtons |-> NewButton]
  /\ kOps = 0
  /\ kLast = [op |-> "new", code |-> None, shiftKey |-> FALSE, pre |-> <<>>, preRec |-> FALSE,
              preKeys |-> {}, preButtons |-> {}, threw |-> FALSE]
  /\ \/ /\ isCreatingString = FALSE
        /\ inputString = <<>>
        /\ typed = [chars |-> <<>>, clean |-> FALSE]
     \/ /\ isCreatingString = TRUE
        /\ inputString = Filled(INPUTSTRING_LEN - 2)
        /\ typed = [chars |-> Filled(INPUTSTRING_LEN - 2), clean |-> TRUE]

KCall(op, code, shiftKey, k) ==
  /\ kOps < MaxKeyOps
  /\ kOps' = kOps + 1
  /\ isCreatingString' = k.isCreatingString
  /\ inputString' = k.inputString
  /\ keys' = k.keys
  /\ kLast' = [op |-> op, code |-> code, shiftKey |-> shiftKey, pre |-> inputString,
               preRec |-> isCreatingString, preKeys |-> DOMAIN keys,
               preButtons |-> DOMAIN buttons, threw |-> k.threw]

\* KeyBoard.setup(): a Button for every code of KeyCode (the capture keys only decide
\* preventDefault on the host's event)
KbSetup ==
  /\ UNCHANGED kbRest
  /\ ~isSetup
  /\ isSetup' = TRUE
  /\ KCall("setup", None, FALSE, [KB EXCEPT !.keys = [c \in DOMAIN keys \cup KnownCodes |->
                                                 IF c \in KnownCodes THEN NewButton ELSE keys[c]]])
  /\ UNCHANGED <<buttons, typed>>

StartRecording ==
  /\ UNCHANGED <<kbRest, isSetup>>
  /\ KCall("start", None, FALSE, startRecordingStrings(KB))
  /\ typed' = IF isCreatingString THEN typed ELSE [chars |-> <<>>, clean |-> TRUE]
  /\ UNCHANGED buttons

StopRecording ==
  /\ UNCHANGED <<kbRest, isSetup>>
  /\ KCall("stop", None, FALSE, stopRecordingStrings(KB))
  /\ UNCHANGED <<buttons, typed>>

\* a keypress reaches keyboard.processKeyPress
KeyPress ==
  /\ UNCHANGED <<kbRest, isSetup>>
  /\ \E ev \in KeyPresses :
       /\ KCall("press", ev.keyCode, ev.shiftKey, processKeyPress(KB, ev))
       /\ typed' = IF isCreatingString /\ ~(ev.keyCode = ENTER /\ ~ev.shiftKey)
                     THEN [chars |-> Append(typed.chars, FromCharCode(ev.charCode)),
                           clean |-> typed.clean /\ ev.keyCode # ENTER]
                     ELSE typed
  /\ UNCHANGED buttons

\* a key-down reaches keyboard.processKeyDown
KeyDown ==
  /\ UNCHANGED <<kbRest, isSetup>>
  /\ \E code \in SignalCodes :
       /\ KCall("keyDown", code, FALSE, processKeyDown(KB, code, getTime))
       /\ typed' = [typed EXCEPT !.clean = @ /\ code # BACKSPACE]
  /\ UNCHANGED buttons

\* a key-up reaches keyboard.processKeyUp
KeyUp ==
  /\ UNCHANGED <<kbRest, isSetup>>
  /\ \E code \in SignalCodes : KCall("keyUp", code, FALSE, processKeyUp(KB, code, getTime))
  /\ UNCHANGED <<buttons, typed>>

\* a mouse-down reaches mouse.processMouseDown
MouseDown ==
  /\ UNCHANGED <<kbRest, isSetup>>
  /\ \E code \in MouseCodes :
       /\ KCall("mouseDown", code, FALSE, KB)
       /\ buttons' = processMouseDown(buttons, code, getTime)
  /\ UNCHANGED typed

\* a mouse-up reaches mouse.processMouseUp
MouseUp ==
  /\ UNCHANGED <<kbRest, isSetup>>
  /\ \E code \in MouseCodes :
       /\ KCall("mouseUp", code, FALSE, KB)
       /\ buttons' = processMouseUp(buttons, code, getTime)
  /\ UNCHANGED typed

KbNext ==
  \/ KbSetup
  \/ StartRecording
  \/ StopRecording
  \/ KeyPress
  \/ KeyDown
  \/ KeyUp
  \/ MouseDown
  \/ MouseUp

(***************************************************************************)
(* GameObject and Transform: construction, parent tracking, integration    *)
(***************************************************************************)
\* the Transform of game object g is its own component
TransformOf(g) == MaxComp + 2 + g
Transforms == {TransformOf(g) : g \in Comps}
\* Transform.TRANSFORM_TYPE
TRANSFORM_TYPE == "Transform"
\* EngineObject#type of a component: a Transform, or the type of a game object
TypeOf(c) == IF c \in Transforms THEN TRANSFORM_TYPE ELSE "GameObject"
\* EngineObject#type === Transform.TRANSFORM_TYPE
IsTransform(c) == c \in Transforms
\* the type tags game code looks for: Transforms, and a type no component has
TypeIDs == {TRANSFORM_TYPE, "Camera"}

\* Victor vectors
Vec(x, y) == <<x, y>>
VAdd(a, b) == <<a[1] + b[1], a[2] + b[2]>>
VSub(a, b) == <<a[1] - b[1], a[2] - b[2]>>
VScale(a, k) == <<a[1] * k, a[2] * k>>
\* null where a vector is expected
NoVec == <<>>

\* Time#deltaSec of a frame, in whole seconds
Deltas == {1, 2}
\* the vectors game code gives to a Transform's velocity, acceleration and scale
Velocities == {Vec(1, 2)}
Accelerations == {Vec(2, 1)}
Scales == {Vec(2, 3)}

\* a Transform constructed with the velocity (1, 1)
NewTransformUnitVelocity == [type |-> TRANSFORM_TYPE, position |-> Vec(0, 0), velocity |-> Vec(1, 1), acceleration |-> Vec(0, 0),
                 scale |-> Vec(1, 1), parentTransform |-> None, superParent |-> None,
                 parentLastPosition |-> NoVec, parentLastScale |-> NoVec]
\* Transform.constructor before it looks for a parent Transform
NewTransform == [type |-> TRANSFORM_TYPE, position |-> Vec(0, 0), velocity |-> Vec(0, 0), acceleration |-> Vec(0, 0),
                 scale |-> Vec(1, 1), parentTransform |-> None, superParent |-> None,
                 parentLastPosition |-> NoVec, parentLastScale |-> NoVec]

\* EngineComponent.getComponent(Transform.getType()) on component a: the first child
\* of that type, None (undefined) when there is none
getComponent(ch, a) ==
  IF \E k \in 1..Len(ch[a]) : IsTransform(ch[a][k])
    THEN ch[a][CHOOSE k \in 1..Len(ch[a]) :
                 /\ IsTransform(ch[a][k])
                 /\ \A j \in 1..(k - 1) : ~IsTransform(ch[a][j])]
    ELSE None

\* EngineComponent.getComponent(typeID) on component a: the first child of that type,
\* None (undefined) when there is none
getComponentOf(ch, a, typeID) ==
  IF \E k \in 1..Len(ch[a]) : TypeOf(ch[a][k]) = typeID
    THEN ch[a][CHOOSE k \in 1..Len(ch[a]) :
                 /\ TypeOf(ch[a][k]) = typeID
                 /\ \A j \in 1..(k - 1) : TypeOf(ch[a][j]) # typeID]
    ELSE None

\* this.parent !== undefined
HasParent(p) == p # None

\* EngineComponent.getComponentInParent(typeID) on component c: getComponent on c, then
\* on c's parent and so on; a call on null is a TypeError, a recursion that never ends
\* a RangeError
RECURSIVE getComponentInParent(_, _, _, _, _)
getComponentInParent(ch, par, c, typeID, depth) ==
  IF depth > StackLimit THEN [kind |-> "RangeError", items |-> <<>>]
  ELSE LET check == getComponentOf(ch, c, typeID)
       IN  IF check # None THEN [kind |-> "object", items |-> <<check>>]
           ELSE IF HasParent(par[c])
                  THEN IF par[c] = Null THEN [kind |-> "TypeError", items |-> <<>>]
                       ELSE getComponentInParent(ch, par, par[c], typeID, depth + 1)
                  ELSE [kind |-> "undefined", items |-> <<>>]

\* this.superParent = this.parent.parent; this.parentTransform = ...getComponent(...);
\* if(this.parentTransform) the last position and scale are clones of the parent's
Rebind(tr, t, pp, ch) ==
  LET pt == getComponent(ch, pp)
      bound == [tr[t] EXCEPT !.superParent = pp, !.parentTransform = pt]
  IN  IF pt # None
        THEN [bound EXCEPT !.parentLastPosition = tr[pt].position,
                           !.parentLastScale = tr[pt].scale]
        ELSE bound

\* this.parent && this.parent.parent && (this.superParent != this.parent.parent)
ParentChanged(me, pp) == Truthy(pp) /\ me.superParent # pp

\* the else branch of the attached case: look the parent Transform up again
Rerecord(tr, t, me, pp, ch) ==
  LET pt == getComponent(ch, pp)
      got == [me EXCEPT !.parentTransform = pt]
  IN  IF pt # None
        THEN [got EXCEPT !.parentLastPosition = tr[pt].position,
                         !.parentLastScale = tr[pt].scale]
        ELSE got

\* the attached case: add what the parent Transform moved and scaled since the last
\* recorded position and scale, and record the new ones (the recorded vectors are
\* clones, never the parent's own objects, so both !== tests pass)
Follow(tr, me) ==
  LET p == tr[me.parentTransform]
  IN  [me EXCEPT !.position = VAdd(@, VSub(p.position, me.parentLastPosition)),
                 !.parentLastPosition = p.position,
                 !.scale = VAdd(@, VSub(p.scale, me.parentLastScale)),
                 !.parentLastScale = p.scale]

\* a position step that takes the velocity after the acceleration was added
PositionStepNewVelocity(me, dt) ==
  VAdd(me.position, VScale(VAdd(me.velocity, VScale(me.acceleration, dt)), dt))
\* this.position.x += this.velocity.x * deltaSec (and y)
PositionStep(me, dt) == VAdd(me.position, VScale(me.velocity, dt))

\* the last four lines of update(): position, then velocity
Integrate(me, dt) ==
  [me EXCEPT !.position = PositionStep(me, dt),
             !.velocity = VAdd(me.velocity, VScale(me.acceleration, dt))]

\* Transform.update() of Transform t, whose owner (this.parent) is o; pp is the owner's
\* parent, att the owner's attachedToParent
TransformUpdate(tr, t, pp, att, ch, dt) ==
  LET t1 == IF ParentChanged(tr[t], pp) THEN Rebind(tr, t, pp, ch) ELSE tr[t]
      t2 == IF att
              THEN IF t1.parentLastPosition # NoVec /\ t1.parentTransform # None
                        /\ t1.parentLastScale # NoVec
                     THEN Follow(tr, t1)
                     ELSE IF Truthy(pp) THEN Rerecord(tr, t, t1, pp, ch) ELSE t1
              ELSE t1
  IN  [tr EXCEPT ![t] = Integrate(t2, dt)]

\* the update loop of a frame over the registry: a Transform integrates and follows,
\* every other object's update() is empty here; r.at[t] keeps the Transforms and the
\* parents as they were when update() of t began
RECURSIVE UpdateTransforms(_, _, _)
UpdateTransforms(r, k, dt) ==
  IF k > Len(objects) THEN r
  ELSE LET t == objects[k]
       IN  IF IsTransform(t) /\ parent[t] # None
             THEN UpdateTransforms(
                    [tr |-> TransformUpdate(r.tr, t, parent[parent[t]],
                                            attachedToParent[parent[t]], childComponents, dt),
                     at |-> [r.at EXCEPT ![t] = [tr |-> r.tr, parent |-> parent]]],
                    k + 1, dt)
             ELSE UpdateTransforms(r, k + 1, dt)

\* the game objects constructed so far
Born == 1..born

NoTick == [op |-> "none", c |-> None, a |-> None, dt |-> 0, pre |-> <<>>,
           preParent |-> <<>>, preAttached |-> <<>>, preSawAt |-> <<>>, at |-> <<>>,
           typeID |-> "", ret |-> [kind |-> "none", items |-> <<>>]]

\* the engine as constructed: the keyboard and the mouse registered, no game object
TrFields ==
  /\ objects = EngineObjects
  /\ guidCounter = 0
  /\ guid = [o \in {KeyboardObj, MouseObj} |-> NaN]
  /\ parent = [c \in Comps \cup Transforms |-> None]
  /\ childComponents = [c \in Comps \cup Transforms |-> <<>>]
  /\ ops = 0
  /\ lastOp = NoOp
  /\ trace = <<>>
  /\ threw = FALSE
  /\ transforms = [t \in Transforms |-> NewTransform]
  /\ transform = [c \in Comps |-> None]
  /\ attachedToParent = [c \in Comps |-> FALSE]
  /\ born = 0
  /\ steps = 0
  /\ sawAt = [t \in Transforms |-> <<>>]
  /\ tLast = NoTick
  /\ tPrev = NoTick

TrIdle ==
  /\ transforms = <<>>
  /\ transform = <<>>
  /\ attachedToParent = <<>>
  /\ born = 0
  /\ steps = 0
  /\ sawAt = <<>>
  /\ tLast = NoTick
  /\ tPrev = NoTick

\* new SomeGameObject(engine, name, p): EngineObject.constructor takes a GUID and
\* registers the object, EngineComponent.constructor sets parent and childComponents,
\* GameObject.constructor makes the Transform (which takes a GUID, registers, and looks
\* for the Transform of the owner's parent) and adds it with addChildComponent
NewGameObjectWith(p) ==
  /\ born < MaxObjects
  /\ steps < MaxSteps
  /\ steps' = steps + 1
  /\ LET c == born + 1
         t == TransformOf(c)
         st0 == [parent |-> [parent EXCEPT ![c] = p, ![t] = c],
                 children |-> [childComponents EXCEPT ![c] = <<>>, ![t] = <<>>]]
         made0 == IF Truthy(p)
                    THEN [transforms EXCEPT ![t] = Rebind(transforms, t, p, childComponents)]
                    ELSE [transforms EXCEPT ![t] = NewTransform]
         st1 == addChildComponent(st0, c, t)
     IN  /\ born' = c
         /\ guid' = [o \in DOMAIN guid \cup {c, t} |->
                       IF o = c THEN guidCounter
                       ELSE IF o = t THEN guidCounter + 1 ELSE guid[o]]
         /\ guidCounter' = guidCounter + 2
         /\ objects' = objects \o <<c, t>>
         /\ parent' = st1.parent
         /\ childComponents' = st1.children
         /\ transforms' = made0
         /\ transform' = [transform EXCEPT ![c] = t]
         /\ attachedToParent' = [attachedToParent EXCEPT ![c] = FALSE]
         /\ sawAt' = [sawAt EXCEPT ![t] = [tr |-> made0, parent |-> st1.parent]]
         /\ tLast' = [NoTick EXCEPT !.op = "new", !.c = c, !.a = p]
         /\ tPrev' = NoTick
  /\ UNCHANGED <<ops, lastOp, trace, threw>>

\* game code constructs a game object without a parent argument or under an existing one
NewGameObject ==
  /\ UNCHANGED trRest
  /\ \E p \in {None} \cup Born : NewGameObjectWith(p)

\* the engine constructs a game object of its own: null as the parent argument
NewRootObject ==
  /\ UNCHANGED trRest
  /\ NewGameObjectWith(Null)

Move(op, c, a) ==
  /\ steps < MaxSteps
  /\ steps' = steps + 1
  /\ tLast' = [NoTick EXCEPT !.op = op, !.c = c, !.a = a, !.preParent = parent]
  /\ tPrev' = NoTick
  /\ UNCHANGED <<born, sawAt, transform, objects, guid, guidCounter, ops, lastOp,
                 trace, threw>>

\* game code writes the velocity, the acceleration or the scale of a Transform
SetMotion ==
  /\ UNCHANGED trRest
  /\ \E c \in Born :
       /\ Move("set", c, None)
       /\ \/ \E v \in Velocities :
               /\ transforms[transform[c]].velocity # v
               /\ transforms' = [transforms EXCEPT ![transform[c]].velocity = v]
          \/ \E v \in Accelerations :
               /\ transforms[transform[c]].acceleration # v
               /\ transforms' = [transforms EXCEPT ![transform[c]].acceleration = v]
          \/ \E v \in Scales :
               /\ transforms[transform[c]].scale # v
               /\ transforms' = [transforms EXCEPT ![transform[c]].scale = v]
  /\ UNCHANGED <<parent, childComponents, attachedToParent>>

\* game code writes attachedToParent of a game object
SetAttached ==
  /\ UNCHANGED trRest
  /\ \E c \in Born :
       /\ Move("attach", c, None)
       /\ attachedToParent' = [attachedToParent EXCEPT ![c] = ~@]
  /\ UNCHANGED <<parent, childComponents, transforms>>

\* game code calls a.addChildComponent(c) on two game objects
AdoptObject ==
  /\ UNCHANGED trRest
  /\ \E a \in Born : \E c \in Born \ {a} :
       LET st == addChildComponent([parent |-> parent, children |-> childComponents], a, c)
       IN  /\ Move("add", c, a)
           /\ parent' = st.parent
           /\ childComponents' = st.children
  /\ UNCHANGED <<attachedToParent, transforms>>

\* game code calls a.removeComponent(c) on a game object it lists
DropObject ==
  /\ UNCHANGED trRest
  /\ \E a \in Born : \E c \in Born \ {a} :
       LET st == removeComponent([parent |-> parent, children |-> childComponents], a, c)
       IN  /\ IndexOf(childComponents[a], c) > 0
           /\ Move("remove", c, a)
           /\ parent' = st.parent
           /\ childComponents' = st.children
  /\ UNCHANGED <<attachedToParent, transforms>>

\* a frame: time.update() gives deltaSec, then update() of every registered object
Tick ==
  /\ UNCHANGED trRest
  /\ steps < MaxSteps
  /\ born > 0
  /\ \E dt \in Deltas :
       LET r == UpdateTransforms([tr |-> transforms, at |-> sawAt], 1, dt)
       IN  /\ transforms' = r.tr
           /\ sawAt' = r.at
           /\ tLast' = [NoTick EXCEPT !.op = "tick", !.dt = dt, !.pre = transforms,
                                      !.preParent = parent, !.preAttached = attachedToParent,
                                      !.preSawAt = sawAt, !.at = r.at]
           /\ tPrev' = tLast
  /\ steps' = steps + 1
  /\ UNCHANGED <<born, transform, attachedToParent, objects, guid, guidCounter,
                 parent, childComponents, ops, lastOp, trace, threw>>

\* game code calls c.getComponentInParent(typeID)
Lookup ==
  /\ UNCHANGED trRest
  /\ steps < MaxSteps
  /\ steps' = steps + 1
  /\ \E c \in Born, typeID \in TypeIDs :
       tLast' = [NoTick EXCEPT !.op = "lookup", !.c = c, !.typeID = typeID,
                               !.ret = getComponentInParent(childComponents, parent, c,
                                                            typeID, 1)]
  /\ tPrev' = NoTick
  /\ UNCHANGED <<compVars, transforms, transform, attachedToParent, born, sawAt>>

\* the component tree alone: construction, re-parenting, lookups
TreeNext ==
  \/ NewGameObject
  \/ NewRootObject
  \/ AdoptObject
  \/ DropObject
  \/ Lookup

TrNext ==
  \/ NewGameObject
  \/ SetMotion
  \/ SetAttached
  \/ AdoptObject
  \/ DropObject
  \/ Tick

(***************************************************************************)
(* Users: Engine#userObjects, addUserAvatar, createUser, removeUserAvatar  *)
(***************************************************************************)
UserIDs == 0..MaxUserID

\* this.userObjects[id]
UserAt(uo, id) == IF id + 1 <= Len(uo) THEN uo[id + 1] ELSE None
\* this.userObjects[id] = user: the Array grows to id + 1 elements, holes in between
PutUser(uo, id, user) ==
  [k \in 1..(IF id + 1 > Len(uo) THEN id + 1 ELSE Len(uo)) |->
     IF k = id + 1 THEN user ELSE IF k <= Len(uo) THEN uo[k] ELSE None]
\* this.userObjects.splice(id, 1): the element is taken out and every later element
\* moves one index down
DropUser(uo, id) == Splice(uo, id + 1)

NoUserCall == [op |-> "none", id |-> None, user |-> None]

UsersIdle ==
  /\ userObjects = <<>>
  /\ roster = [id \in UserIDs |-> None]
  /\ uLast = NoUserCall

\* addUserAvatar / createUser with settings.ID = id: null when the ID is taken, else a
\* new User (a game object constructed with null as its parent) stored under the ID
NewUser(op, id) ==
  IF UserAt(userObjects, id) # None
    THEN /\ uLast' = [op |-> op, id |-> id, user |-> None]
         /\ UNCHANGED <<compVars, trVars, userObjects, roster>>
    ELSE /\ NewGameObjectWith(Null)
         /\ userObjects' = PutUser(userObjects, id, born + 1)
         /\ roster' = [roster EXCEPT ![id] = born + 1]
         /\ uLast' = [op |-> op, id |-> id, user |-> born + 1]

AddUserAvatar ==
  /\ UNCHANGED userRest
  /\ \E id \in UserIDs : NewUser("addUserAvatar", id)

CreateUser ==
  /\ UNCHANGED userRest
  /\ \E id \in UserIDs : NewUser("createUser", id)

\* removeUserAvatar(id): null when no user is stored under the ID, else user.destroy(),
\* userObjects.splice(id, 1), and the user is returned
RemoveUserAvatar ==
  /\ UNCHANGED userRest
  /\ \E id \in UserIDs :
       LET user == UserAt(userObjects, id)
           st == destroyComponent(CompState, user, 1)
       IN  /\ roster' = [roster EXCEPT ![id] = None]
           /\ uLast' = [op |-> "removeUserAvatar", id |-> id, user |-> user]
           /\ IF user = None
                THEN UNCHANGED <<compVars, trVars, userObjects>>
                ELSE /\ steps < MaxSteps
                     /\ steps' = steps + 1
                     /\ objects' = st.objects
                     /\ parent' = st.parent
                     /\ childComponents' = st.children
                     /\ userObjects' = DropUser(userObjects, id)
                     /\ tLast' = [NoTick EXCEPT !.op = "removeUser", !.c = user]
                     /\ tPrev' = NoTick
                     /\ UNCHANGED <<guidCounter, guid, ops, lastOp, trace, threw, transforms,
                                    transform, attachedToParent, born, sawAt>>

\* getUserPosition(id): null when no user is stored under the ID, else the position of
\* that user's Transform
GetUserPosition ==
  /\ UNCHANGED userRest
  /\ \E id \in UserIDs :
       uLast' = [op |-> "getUserPosition", id |-> id, user |-> UserAt(userObjects, id)]
  /\ UNCHANGED <<compVars, trVars, userObjects, roster>>

UsersNext ==
  \/ AddUserAvatar
  \/ CreateUser
  \/ RemoveUserAvatar
  \/ GetUserPosition

\* the part of the state each specification leaves alone
EMIdle == EMFields
CompIdle ==
  /\ objects = <<>>
  /\ guidCounter = 0
  /\ guid = <<>>
  /\ parent = <<>>
  /\ childComponents = <<>>
  /\ ops = 0
  /\ lastOp = NoOp
  /\ trace = <<>>
  /\ threw = FALSE

EMInit == EMFields /\ CompIdle /\ BtnIdle /\ EngIdle /\ KbIdle /\ TrIdle /\ UsersIdle
SpecEM == EMInit /\ [][EMNext]_vars

\* handleEvents is one synchronous call: once entered, its loop runs on until it returns
PassInit == EMQueued /\ CompIdle /\ BtnIdle /\ EngIdle /\ KbIdle /\ TrIdle /\ UsersIdle
SpecPass ==
  /\ PassInit
  /\ [][PassNext]_vars
  /\ WF_vars(HandleEventsPop)
  /\ WF_vars(HandleEventsCall)
  /\ WF_vars(HandleEventsReturn)

CompInit == EMIdle /\ CompFields /\ BtnIdle /\ EngIdle /\ KbIdle /\ TrIdle /\ UsersIdle
SpecComp == CompInit /\ [][CompNext]_vars

BtnInit == EMIdle /\ CompIdle /\ BtnFields /\ EngIdle /\ KbIdle /\ TrIdle /\ UsersIdle
SpecButton == BtnInit /\ [][BtnNext]_vars

EngInit == EMIdle /\ CompIdle /\ BtnIdle /\ EngFields /\ KbIdle /\ TrIdle /\ UsersIdle
SpecEngine == EngInit /\ [][EngNext]_vars

AbstractInit == EMIdle /\ CompIdle /\ BtnIdle /\ EngFields /\ KbIdle /\ TrIdle /\ UsersIdle
SpecAbstract == AbstractInit /\ [][AbstractNext]_vars

InputInit == EMIdle /\ BtnIdle /\ InputFields /\ KbIdle /\ TrIdle /\ UsersIdle
SpecInput == InputInit /\ [][InputNext]_vars

KbInit == EMIdle /\ CompIdle /\ BtnIdle /\ EngIdle /\ KbFields /\ TrIdle /\ UsersIdle
SpecKeyboard == KbInit /\ [][KbNext]_vars

TrInit == EMIdle /\ BtnIdle /\ EngIdle /\ KbIdle /\ TrFields /\ UsersIdle
SpecTransform == TrInit /\ [][TrNext]_vars

UsersInit == EMIdle /\ BtnIdle /\ EngIdle /\ KbIdle /\ TrFields /\ UsersIdle
SpecUsers == UsersInit /\ [][UsersNext]_vars

TreeInit == EMIdle /\ BtnIdle /\ EngIdle /\ KbIdle /\ TrFields /\ UsersIdle
SpecTree == TreeInit /\ [][TreeNext]_vars

(***************************************************************************)
(* EventManager: properties                                                *)
(***************************************************************************)
Reverse(s) == [k \in 1..Len(s) |-> s[Len(s) + 1 - k]]
Ids(s) == [k \in 1..Len(s) |-> s[k].id]
Range(s) == {s[k] : k \in 1..Len(s)}
\* the positions of event id e in the removal history
PopIdx(e) == {k \in 1..Len(popped) : popped[k].id = e}
\* the positions of the handler calls made on event id e
CallIdx(e) == {k \in 1..Len(log) : log[k].ev = e}
\* the handler calls made on event id e, in order
CallsOn(e) == SelectSeq(log, LAMBDA c : c.ev = e)
\* the for loop over e's listeners is over
Dispatched(e) == PopIdx(e) # {} /\ ~(pc = "call" /\ event.id = e)
\* the events of type t on which a handler was called in pass p, in call order
PassCalls(t, p) ==
  Ids([k \in 1..Len(SelectSeq(log, LAMBDA c : published[c.ev].type = t
                                    /\ \E j \in PopIdx(c.ev) : popped[j].pass = p)) |->
        [id |-> SelectSeq(log, LAMBDA c : published[c.ev].type = t
                                    /\ \E j \in PopIdx(c.ev) : popped[j].pass = p)[k].ev]])
\* the listener records of type t in the order of their addListenerFor calls
RegisteredFor(t) == SelectSeq([r \in 1..Len(registered) |-> r], LAMBDA r : registered[r].type = t)

\* C1: when a pass in which no handler published or registered has returned, every type
\* that had exactly one listener saw the events of that type that were queued at the
\* start of the pass in reverse publication order (E3, E2, E1 for E1, E2, E3).
C1_LifoOrder ==
  (pc = "idle" /\ passNo > 0 /\ passPub = 0 /\ passReg = 0) =>
    \A t \in DOMAIN passListeners :
      Len(passListeners[t]) = 1 =>
        PassCalls(t, passNo) = Reverse(Ids(SelectSeq(passStart, LAMBDA e : e.type = t)))

\* C1 witness: three events of one type with one listener were dispatched in one quiet pass
C1_Witness ==
  /\ pc = "idle" /\ passNo > 0 /\ passPub = 0 /\ passReg = 0
  /\ \E t \in DOMAIN passListeners :
       /\ Len(passListeners[t]) = 1
       /\ Len(SelectSeq(passStart, LAMBDA e : e.type = t)) = 3
       /\ Len(PassCalls(t, passNo)) = 3

\* C2: an event published by a handler during a pass is removed and dispatched in that same
\* pass, and before every event that was in the queue when it was published.
C2_InPassFirst ==
  \A e \in 1..Len(published) :
    published[e].pass > 0 =>
      /\ \A j \in PopIdx(e) : popped[j].pass = published[e].pass
      /\ (pc = "idle" \/ passNo > published[e].pass) => PopIdx(e) # {}
      /\ \A q \in Range(published[e].older) :
           /\ \A kq \in PopIdx(q) : \E ke \in PopIdx(e) : ke < kq
           /\ \A cq \in CallIdx(q) : Dispatched(e) /\ \A ce \in CallIdx(e) : ce < cq

\* C2 witness: a handler published an event over an older queued one and both had a
\* handler called on them
C2_Witness ==
  \E e \in 1..Len(published) :
    /\ published[e].pass > 0
    /\ \E q \in Range(published[e].older) : CallIdx(q) # {} /\ CallIdx(e) # {}

\* C3: the step on which handleEvents returns leaves the pending queue empty.
C3_DrainedOnReturn == [][(pc = "loop" /\ pc' = "idle") => events' = <<>>]_vars

\* C3 witness: a pass that started with queued events and in which a handler published
\* has returned
C3_Witness ==
  pc = "idle" /\ passNo > 0 /\ Len(passStart) > 0 /\ passPub > 0 /\ events = <<>>

\* C4: every published event is either still queued (once) or was removed exactly once;
\* once its dispatch is over, every listener that was registered for its type when it
\* was removed has been called on it exactly once, and with no such listener no handler
\* was called on it at all.
C4_ExactlyOneAttempt ==
  \A e \in 1..Len(published) :
    /\ Cardinality(PopIdx(e)) + Cardinality({k \in 1..Len(events) : events[k].id = e}) = 1
    /\ Dispatched(e) =>
         \A j \in PopIdx(e) :
           /\ \A k \in 1..popped[j].regs :
                Cardinality({c \in CallIdx(e) : log[c].rid = RegisteredFor(published[e].type)[k]}) = 1
           /\ popped[j].regs = 0 => CallIdx(e) = {}

\* C4 witness: after a second pass, one event was discarded without a listener and another
\* was delivered to two listeners
C4_Witness ==
  /\ pc = "idle" /\ passNo = 2
  /\ \E j \in 1..Len(popped) : popped[j].regs = 0 /\ popped[j].pass = 1
  /\ \E j \in 1..Len(popped) : popped[j].regs = 2 /\ Cardinality(CallIdx(popped[j].id)) = 2

\* C5: the handler calls made on one event follow the order of the addListenerFor calls
\* for its type, each with the handler object and function of its own registration, and
\* once the dispatch is over none of the listeners registered at removal was left out.
C5_RegistrationOrder ==
  \A e \in 1..Len(published) :
    /\ Len(CallsOn(e)) <= Len(RegisteredFor(published[e].type))
    /\ \A k \in 1..Len(CallsOn(e)) :
         /\ k <= Len(RegisteredFor(published[e].type))
         /\ CallsOn(e)[k].rid = RegisteredFor(published[e].type)[k]
         /\ CallsOn(e)[k].obj = registered[CallsOn(e)[k].rid].obj
         /\ CallsOn(e)[k].func = registered[CallsOn(e)[k].rid].func
    /\ Dispatched(e) => \A j \in PopIdx(e) : Len(CallsOn(e)) >= popped[j].regs

\* C5 witness: an event was delivered to two listeners of its type
C5_Witness ==
  \E e \in 1..Len(published) :
    /\ Dispatched(e)
    /\ Len(CallsOn(e)) = 2
    /\ CallsOn(e)[1].obj # CallsOn(e)[2].obj

(***************************************************************************)
(* EngineComponent: properties                                             *)
(***************************************************************************)
Listed(a, c) == IndexOf(childComponents[a], c) > 0
Occurrences(seq, x) == Cardinality({k \in 1..Len(seq) : seq[k] = x})
\* the positions in the trace at which a destroy() call is entered
Entries == {k \in 1..Len(trace) : trace[k].op = "destroy"}

\* C6: after Q.addChildComponent(C) on a component C whose parent was P, with P other
\* than Q, C.parent is Q, C is listed in Q's children and no longer in P's children.
C6_Reparented ==
  (lastOp.op = "add" /\ lastOp.prevParent # None /\ lastOp.prevParent # lastOp.a) =>
    /\ parent[lastOp.c] = lastOp.a
    /\ Listed(lastOp.a, lastOp.c)
    /\ ~Listed(lastOp.prevParent, lastOp.c)

\* C7: P.addChildComponent(C) directly followed by P.removeComponent(C) leaves P's child
\* list as it was before the add and leaves C.parent unset.
C7_AddRemoveRestores ==
  lastOp.op = "addremove" =>
    /\ childComponents[lastOp.a] = lastOp.pre
    /\ parent[lastOp.c] = None

\* C8: no component occurs more than once in any child list.
C8_ChildrenAreSet ==
  \A a \in Comps, c \in Comps : Occurrences(childComponents[a], c) <= 1

\* C9: a destroy() of a component with N descendants makes N+1 destroy invocations, one
\* on it and one on each descendant, after which none of them is registered and every
\* other object registered before still is, in the same order.
C9_DestroyCount ==
  (lastOp.op = "destroy" /\ ~threw) =>
    /\ Cardinality(Entries) = Cardinality(lastOp.desc \ {lastOp.c}) + 1
    /\ \A y \in lastOp.desc \cup {lastOp.c} :
         Cardinality({k \in Entries : trace[k].who = y}) = 1
    /\ objects = SelectSeq(lastOp.preObjects, LAMBDA o : o \notin lastOp.desc \cup {lastOp.c})

Thresholds == {BTN_RECENT, FrameMs, BTN_DELAY}
Max2(a, b) == IF a >= b THEN a ELSE b

\* C17 (as stated): on an enabled button that is Up, a down-signal fewer than BTN_DELAY
\* ms after the most recent up-signal is ignored and the button stays Up; one that comes
\* BTN_DELAY ms or more after it moves the button to Down with timeDown = the time of
\* the signal.
C17_DebounceByUpSignal ==
  (bLast.op = "down" /\ bLast.pre.enabled /\ bLast.pre.isUp /\ upAt # None)
    => IF bLast.t - upAt < BTN_DELAY
         THEN key = bLast.pre
         ELSE key.isDown /\ ~key.isUp /\ key.timeDown = bLast.t

\* C17 (amended): the debounce window is measured in engine time (Time.getTime(), the
\* time of the latest Time.update()) from the button's timeUp, which is the engine time
\* of the latest release or reset() (0 before any): a down-signal on an enabled Up button
\* is ignored when getTime() - timeUp < BTN_DELAY and otherwise moves the button to Down
\* with timeDown = getTime() and duration 0.
C17_DebounceByTimeUp ==
  /\ key.isUp => key.timeUp = Max2(Max2(upAt, resetAt), 0)
  /\ (bLast.op = "down" /\ bLast.pre.enabled /\ bLast.pre.isUp)
       => IF bLast.t - bLast.pre.timeUp < BTN_DELAY
            THEN key = bLast.pre
            ELSE /\ key.isDown /\ ~key.isUp
                 /\ key.timeDown = bLast.t
                 /\ key.duration = 0
                 /\ key.timeUp = bLast.pre.timeUp
                 /\ key.enabled

\* a press exactly BTN_DELAY ms of engine time after a release is accepted
C17_Witness ==
  /\ bLast.op = "down"
  /\ upAt # None
  /\ bLast.pre.isUp
  /\ key.isDown
  /\ key.timeDown - key.timeUp = BTN_DELAY

\* C18: in every reachable state of a Button exactly one of isUp and isDown is true.
C18_UpXorDown == key.isUp # key.isDown

\* an up-signal has reached a disabled button that is Down
C18_Witness ==
  /\ bLast.op = "up"
  /\ key.isDown
  /\ ~key.enabled
  /\ resetAt # None

\* C19: an up-signal releases the button exactly when it is enabled and not already Up;
\* the release records timeUp and duration = timeUp - timeDown; on a disabled button or
\* a button that is already Up the signal changes nothing.
C19_UpSignal ==
  bLast.op = "up"
    => IF bLast.pre.enabled /\ ~bLast.pre.isUp
         THEN /\ bLast.pre.isDown
              /\ key.isUp /\ ~key.isDown
              /\ key.timeUp = bLast.t
              /\ key.duration = key.timeUp - key.timeDown
              /\ key.timeDown = bLast.pre.timeDown
              /\ key.enabled
         ELSE key = bLast.pre

\* an up-signal has released a button that was held for some time
C19_Witness ==
  /\ bLast.op = "up"
  /\ bLast.pre.isDown
  /\ key.isUp
  /\ key.duration >= FrameMs

PhaseNames(f) ==
  LET keep == {k \in 1..Len(f) : k = 1 \/ f[k].ph # f[k - 1].ph}
      Nth(n) == CHOOSE k \in keep : Cardinality({j \in keep : j <= k}) = n
  IN  [n \in 1..Cardinality(keep) |-> f[Nth(n)].ph]
\* the registry when the step named ph of frame f was done
RegAt(f, ph) == f[CHOOSE k \in 1..Len(f) : f[k].ph = ph].reg
\* the objects whose update() ran in frame f, in call order
Updated(f) ==
  LET ups == SelectSeq(f, LAMBDA r : r.ph = "update")
  IN  [k \in 1..Len(ups) |-> ups[k].who]
Only(s, S) == SelectSeq(s, LAMBDA x : x \in S)

\* C11: at most one Engine exists: once a construction has succeeded, every later
\* construction attempt fails with an error and Engine.instance keeps referring to the
\* first engine.
C11_Singleton ==
  [][instance # None => /\ instance' = instance
                        /\ (made' # made => ctor'.result = "Error")]_vars

\* a construction attempt has failed on the existing instance
C11_Witness ==
  /\ lastStep = "new"
  /\ instance # None
  /\ ctor.before = instance
  /\ ctor.result = "Error"

\* C12: every constructed EngineObject is in the registry with a GUID taken from the
\* engine's counter: GUIDs strictly increase in construction (= registry) order, no two
\* objects ever constructed share a GUID, and the registry of a constructed engine is
\* not empty.
C12_GuidsIncrease ==
  instance # None =>
    /\ Len(objects) > 0
    /\ \A o \in DOMAIN guid : guid[o] \in Nat
    /\ \A a, b \in DOMAIN guid : a # b => guid[a] # guid[b]
    /\ \A j, k \in 1..Len(objects) : j < k => guid[objects[j]] < guid[objects[k]]

\* C13: gameLoop does nothing while no Engine instance exists or the instance is not
\* set up: no time advance, no dispatch, no update, no callback, no frame request, no
\* render; start() before setup() runs no frame and schedules none.
C13_GuardedLoop ==
  [][(lastStep' \in {"start", "frame", "gameLoop"} /\ (instance = None \/ ~isSetup))
       => /\ frame' = <<>>
          /\ scheduled' <= scheduled
          /\ UNCHANGED <<current, events, key, objects, frameNo>>]_vars

\* start() has been called on an engine that is not set up
C13_Witness ==
  /\ lastStep = "start"
  /\ instance # None
  /\ ~isSetup
  /\ started
  /\ frame = <<>>
  /\ scheduled = 0

\* C14 (as stated): a gameLoop invocation on a set-up engine advances Time, drains the
\* queue, updates the objects, calls the external callback, then requests the next frame,
\* then renders.
C14_RequestAfterCallback ==
  frame # <<>> => PhaseNames(frame) = <<"time", "events", "update", "callback", "request", "render">>

\* C14 (amended): the invocation first requests the next frame, then advances Time,
\* drains the queue, updates the objects, calls the external callback and renders.
C14_RequestFirst ==
  frame # <<>> => PhaseNames(frame) = <<"request", "time", "events", "update", "callback", "render">>

\* a frame requested by an earlier invocation has run
C14_Witness ==
  /\ lastStep = "frame"
  /\ frame # <<>>
  /\ frameNo = 2
  /\ Len(objects) > 2

\* C15: in a gameLoop invocation every object that is in the registry when the update
\* phase starts and is not removed during the phase gets exactly one update() call, in
\* registry order.
C15_EveryObjectUpdatedOnce ==
  frame # <<>> =>
    LET start == RegAt(frame, "events")
        final == RegAt(frame, "callback")
        stay == {o \in Range(start) : o \in Range(final)}
    IN  Only(Updated(frame), stay) = Only(start, stay)


(***************************************************************************)
(* Input: properties                                                       *)
(***************************************************************************)
\* C16: a raw host key signal only enqueues a typed Event, and the Button changes state
\* (isUp/isDown, timeDown, timeUp, duration) only inside a gameLoop invocation, when the
\* event is dispatched by handleEvents or when update() runs.
C16_StateChangesInLoop ==
  [][/\ key' # key => lastStep' \in {"start", "frame"}
     /\ lastStep' \in {"keyDown", "keyUp"}
          => key' = key /\ events' = Append(events, events'[Len(events')])]_vars


\* C21: reset() on a Button in any state (Up or Down, enabled or disabled) leaves it Up,
\* with duration 0 and enabled.
C21_ResetLeavesUp ==
  bLast.op = "reset" => key.isUp /\ ~key.isDown /\ key.duration = 0 /\ key.enabled

\* reset() has run on a disabled button that was Down with a refreshed duration
C21_Witness ==
  /\ bLast.op = "reset"
  /\ bLast.pre.isDown
  /\ ~bLast.pre.enabled
  /\ bLast.pre.duration > 0

(***************************************************************************)
(* KeyBoard string recording and the Button tables (SpecKeyboard)          *)
(***************************************************************************)
Take(s, n) == IF Len(s) <= n THEN s ELSE SubSeq(s, 1, n)
PlainEnter == kLast.code = ENTER /\ ~kLast.shiftKey

\* C22: startRecordingStrings on a keyboard that is recording, and stopRecordingStrings
\* on one that is not, end in an Error and leave the recording flag and the input
\* string as they were.
C22_InvalidStateThrows ==
  (kLast.op = "start" /\ kLast.preRec) \/ (kLast.op = "stop" /\ ~kLast.preRec)
    => /\ kLast.threw
       /\ isCreatingString = kLast.preRec
       /\ inputString = kLast.pre

\* startRecordingStrings has been called while recording with characters in the string
C22_Witness ==
  /\ kLast.op = "start"
  /\ kLast.preRec
  /\ Len(kLast.pre) > 0
  /\ kLast.threw

\* C23 as stated: after startRecordingStrings, printable key presses and then a plain
\* Enter stop the recording and leave the typed characters followed by a newline.
C23_TrailingNewline ==
  kLast.op = "press" /\ PlainEnter /\ kLast.preRec /\ typed.clean
    => /\ ~isCreatingString
       /\ inputString = Append(typed.chars, "\n")

\* C23 (amended): after startRecordingStrings, printable key presses and then a plain
\* Enter stop the recording and leave the typed characters in order, the first
\* INPUTSTRING_LEN of them, with no newline after them.
C23_EnterStopsRecording ==
  kLast.op = "press" /\ PlainEnter /\ kLast.preRec /\ typed.clean
    => /\ ~isCreatingString
       /\ inputString = Take(typed.chars, INPUTSTRING_LEN)

\* a plain Enter has ended a recording of printable key presses
C23_Witness ==
  /\ kLast.op = "press"
  /\ PlainEnter
  /\ kLast.preRec
  /\ typed.clean
  /\ Len(typed.chars) > 0
  /\ inputString = typed.chars

\* C24: the input string never holds more than INPUTSTRING_LEN characters; while
\* recording, a key press at that length appends nothing and a Backspace key-down
\* removes exactly the last character (nothing from the empty string); a key press
\* while not recording leaves the string as it was.
C24_BufferBounded ==
  /\ Len(inputString) <= INPUTSTRING_LEN
  /\ kLast.op = "press" /\ kLast.preRec /\ Len(kLast.pre) = INPUTSTRING_LEN
       => inputString = kLast.pre
  /\ kLast.op = "keyDown" /\ kLast.preRec /\ kLast.code = BACKSPACE
       => inputString = SubSeq(kLast.pre, 1, Len(kLast.pre) - 1)
  /\ kLast.op = "press" /\ ~kLast.preRec => inputString = kLast.pre

\* a printable key has been pressed on a recording keyboard whose string was full
C24_Witness ==
  /\ kLast.op = "press"
  /\ kLast.preRec
  /\ ~PlainEnter
  /\ Len(kLast.pre) = INPUTSTRING_LEN

\* C25 as stated: on the KeyBoard and on the Mouse alike, a down or up signal whose
\* code has no Button creates one and applies the signal to it.
C25_BothCreateButtons ==
  /\ kLast.op \in {"keyDown", "keyUp"} /\ kLast.code \notin kLast.preKeys
       => kLast.code \in DOMAIN keys
  /\ kLast.op \in {"mouseDown", "mouseUp"} /\ kLast.code \notin kLast.preButtons
       => kLast.code \in DOMAIN buttons

\* C25 (amended): on the KeyBoard a down or up signal whose code has no Button creates
\* one and applies the signal to it, so the code answers isDown / isUp afterwards; the
\* Mouse ignores a signal whose code is none of its five buttons and creates no Button.
C25_KeyboardCreatesButtons ==
  /\ kLast.op \in {"keyDown", "keyUp"} /\ kLast.code \notin kLast.preKeys
       => /\ ~kLast.threw
          /\ kLast.code \in DOMAIN keys
          /\ keys[kLast.code].isDown = (kLast.op = "keyDown")
          /\ keys[kLast.code].isUp = (kLast.op = "keyUp")
  /\ kLast.op \in {"mouseDown", "mouseUp"} /\ kLast.code \notin kLast.preButtons
       => DOMAIN buttons = kLast.preButtons

\* a key-down has arrived for a code the key table had no Button for
C25_Witness ==
  /\ kLast.op = "keyDown"
  /\ kLast.code \notin kLast.preKeys
  /\ kLast.code \in DOMAIN keys
  /\ keys[kLast.code].isDown

(***************************************************************************)
(* GameObject and Transform: properties (SpecTransform)                    *)
(***************************************************************************)
Zero == Vec(0, 0)

Tracking(c, pre) ==
  /\ attachedToParent[c]
  /\ Truthy(parent[c])
  /\ pre.superParent = parent[c]
  /\ pre.parentTransform # None
  /\ pre.parentTransform = getComponent(childComponents, parent[c])

\* C27: in a frame in which a Transform is attached and its parent Transform is bound,
\* its position changes by what the parent Transform moved since the Transform's previous
\* update plus its own velocity*dt, and its scale by the parent's change of scale.
C27_FollowsParentDelta ==
  tLast.op = "tick" =>
    \A c \in Born :
      LET t == transform[c]
          pre == tLast.pre[t]
          pt == pre.parentTransform
      IN  Tracking(c, pre) =>
            /\ transforms[t].position =
                 VAdd(VAdd(pre.position, VSub(tLast.at[t].tr[pt].position,
                                              tLast.preSawAt[t].tr[pt].position)),
                      VScale(pre.velocity, tLast.dt))
            /\ transforms[t].scale =
                 VAdd(pre.scale, VSub(tLast.at[t].tr[pt].scale,
                                      tLast.preSawAt[t].tr[pt].scale))

\* C28: when the parent of a Transform's owner is another one than at the Transform's
\* previous update, or none any more, the update binds parentTransform to the new
\* parent's Transform, to none when there is no parent.
C28_RebindsOnParentChange ==
  tLast.op = "tick" =>
    \A c \in Born :
      LET t == transform[c]
      IN  tLast.preSawAt[t].parent[c] # parent[c] =>
            transforms[t].parentTransform =
              IF Truthy(parent[c]) THEN getComponent(childComponents, parent[c]) ELSE None

\* C29: right after its construction a game object has one child, its Transform, which
\* is its transform field and whose parent is the game object.
C29_OwnsOneTransform ==
  tLast.op = "new" =>
    LET c == tLast.c
    IN  /\ IsTransform(transform[c])
        /\ childComponents[c] = <<transform[c]>>
        /\ parent[transform[c]] = c

\* a game object has been constructed with another game object as its parent
C29_Witness ==
  /\ tLast.op = "new"
  /\ Truthy(tLast.a)
  /\ parent[tLast.c] = tLast.a
  /\ Len(childComponents[tLast.c]) = 1

(***************************************************************************)
(* Engine.remove: properties (SpecComp)                                    *)
(***************************************************************************)
\* C30: remove(g) with the GUID of a registered object takes exactly that object out of
\* the registry, keeps the order of the others and returns the object; with a GUID no
\* registered object has it returns null and leaves the registry as it was.
C30_RemoveReturnsObject ==
  lastOp.op = "engineRemove" =>
    LET pre == lastOp.preObjects
        hits == {k \in 1..Len(pre) : guid[pre[k]] = lastOp.a}
    IN  IF hits # {}
          THEN \E k \in hits :
                 /\ objects = Splice(pre, k)
                 /\ lastOp.ret.kind = "object"
                 /\ lastOp.ret.items = <<pre[k]>>
          ELSE /\ objects = pre
               /\ lastOp.ret = [kind |-> "null", items |-> <<>>]

(***************************************************************************)
(* EngineComponent: more properties (SpecComp)                             *)
(***************************************************************************)
\* C31: a.removeComponent(c) on a component a that does not list c returns undefined,
\* raises nothing, and leaves a's children and c's parent reference as they were.
C31_RemoveMissingIsNoOp ==
  lastOp.op = "remove" /\ IndexOf(lastOp.pre, lastOp.c) = 0
    => /\ lastOp.ret.kind = "undefined"
       /\ ~threw
       /\ childComponents[lastOp.a] = lastOp.pre
       /\ parent[lastOp.c] = lastOp.prevParent

\* removeComponent has been called for a component that has another parent, on a
\* component with children of its own
C31_Witness ==
  /\ lastOp.op = "remove"
  /\ IndexOf(lastOp.pre, lastOp.c) = 0
  /\ Len(lastOp.pre) > 0
  /\ lastOp.prevParent # None
  /\ lastOp.prevParent # lastOp.a

\* C35: parent references and child lists agree: c.parent = p exactly when p lists c.
C35_ParentsMatchChildren ==
  \A c \in Comps, p \in Comps : (parent[c] = p) <=> Listed(p, c)

\* C36: a.addChildComponent(c) leaves a's own parent reference and a's place in its
\* parent's children as they were, also when c's previous parent is a's parent.
C36_AdopterKeepsItsParent ==
  lastOp.op = "add" /\ lastOp.a # lastOp.c
    => /\ parent[lastOp.a] = lastOp.aParent
       /\ lastOp.aParent # None => (Listed(lastOp.aParent, lastOp.a) <=> lastOp.aListed)

(***************************************************************************)
(* Lookups and construction of Transforms: properties                      *)
(***************************************************************************)
\* the components getComponentInParent looks at from c on: c, its parent, ...
RECURSIVE Ancestry(_, _)
Ancestry(c, n) ==
  IF n = 0 \/ ~Truthy(c) THEN {} ELSE {c} \cup Ancestry(parent[c], n - 1)
MatchOnChain(c, typeID) ==
  \E x \in Ancestry(c, StackLimit) : getComponentOf(childComponents, x, typeID) # None

\* C32: getComponentInParent(typeID) raises no error; it returns a component of that type
\* listed by the component or by one on its parent chain when there is one, and undefined
\* when there is none, also when the chain ends at a component constructed without a
\* parent.
C32_LookupEndsQuietly ==
  tLast.op = "lookup" =>
    /\ tLast.ret.kind \in {"object", "undefined"}
    /\ tLast.ret.kind = "object" <=> MatchOnChain(tLast.c, tLast.typeID)

\* C34: a Transform just constructed has the Transform type tag, position, velocity and
\* acceleration (0, 0) and scale (1, 1).
C34_TransformDefaults ==
  tLast.op = "new" =>
    LET me == transforms[transform[tLast.c]]
    IN  /\ me.type = TRANSFORM_TYPE
        /\ TypeOf(transform[tLast.c]) = TRANSFORM_TYPE
        /\ me.position = Vec(0, 0)
        /\ me.velocity = Vec(0, 0)
        /\ me.acceleration = Vec(0, 0)
        /\ me.scale = Vec(1, 1)

\* a game object has been constructed under a parent whose Transform had moved and been
\* scaled, so its own Transform recorded vectors other than the defaults
C34_Witness ==
  /\ tLast.op = "new"
  /\ Truthy(tLast.a)
  /\ transforms[transform[tLast.c]].parentLastPosition # NoVec
  /\ transforms[transform[tLast.c]].parentLastPosition # Vec(0, 0)

(***************************************************************************)
(* Abstract classes and the key state after a frame: properties            *)
(***************************************************************************)
\* C33: constructing EngineObject, EngineComponent or GameObject directly fails with an
\* instantiation error.
C33_AbstractThrows == lastStep = "newAbstract" => attempt.threw

\* a direct construction of GameObject, the last class of the chain, has thrown
C33_Witness == lastStep = "newAbstract" /\ attempt.cls = "GameObject" /\ attempt.threw

\* C38: a failed direct construction of an abstract class leaves the registry and the
\* GUID counter as they were before the attempt.
C38_FailedConstructionLeavesEngine ==
  lastStep = "newAbstract" /\ attempt.threw
    => objects = attempt.objects /\ guidCounter = attempt.guidCounter

\* C37: with the keyboard registered as a listener, at the end of every gameLoop
\* invocation a key whose latest host signal was a key-up is Up.
C37_UpAfterFrame ==
  /\ lastStep \in {"start", "frame"}
  /\ frame # <<>>
  /\ "KeyEvent" \in DOMAIN listeners
  /\ lastSignal = "up"
  => key.isUp /\ ~key.isDown

(***************************************************************************)
(* The user table: properties                                              *)
(***************************************************************************)
\* C39: removeUserAvatar(id) affects only the user with that ID: every user added and not
\* removed is found under its own ID, and no removed ID resolves to a user.
C39_OnlyThatUser == \A id \in UserIDs : UserAt(userObjects, id) = roster[id]

(***************************************************************************)
(* Termination of a dispatch pass                                          *)
(***************************************************************************)
\* the removals the pass p has made
PopsIn(p) == Len(SelectSeq(popped, LAMBDA e : e.pass = p))

\* C40: a dispatch pass terminates when its handlers publish finitely many events: each
\* loop step of handleEvents removes exactly one event, a pass that returns has made as
\* many removals as events were queued at its start plus those its handlers published
\* (with no publication: exactly the events queued at its start), and every pass that is
\* entered returns.
C40_PassTerminates ==
  /\ [][popped' # popped => /\ Len(popped') = Len(popped) + 1
                            /\ Len(events') = Len(events) - 1]_vars
  /\ [][pc # "idle" /\ pc' = "idle" => PopsIn(passNo) = Len(passStart) + passPub]_vars
  /\ (pc # "idle") ~> (pc = "idle")

\* a pass entered with two events queued, whose handlers published nothing, has returned
C40_Witness ==
  /\ pc = "idle" /\ passNo > 0 /\ passPub = 0
  /\ Len(passStart) >= 2
  /\ PopsIn(passNo) = Len(passStart)
  /\ Len(log) > 0

====
